---- MODULE Spec2Model ----
(***************************************************************************)
(* A model of the core of csb-foss:                                        *)
(*   - the temporal-signature encoder of raster/combine.py                 *)
(*     (encode_year_sequence, decode_sequence,                             *)
(*      combine_cdl_rasters_windowed) over the windows of raster/io.py;    *)
(*   - the small-polygon elimination engine of vector/eliminate.py and     *)
(*     vector/eliminate_fast.py.                                           *)
(*                                                                         *)
(* 64-bit unsigned integers are sequences of WordBytes base-256 digits,    *)
(* least significant first, so that the arithmetic of numpy's uint64 is    *)
(* kept digit for digit.  Polygons are sets of unit raster cells (the      *)
(* vectorizer turns 4-connected runs of equal code into polygons), so      *)
(* area is a cell count and a shared boundary is a count of unit edges.    *)
(***************************************************************************)
EXTENDS Integers, Sequences, FiniteSets, TLC

(***************************************************************************)
(* Program constants                                                       *)
(***************************************************************************)
\* combine.py:41  the radix of the encoding, 256 ** i
Base == 256
\* combine.py:38  dtype=np.uint64: eight base-256 digits
WordBytes == 8
\* combine.py:91  the "barren" CDL value
Barren == 45

(***************************************************************************)
(* Bounds of the model                                                     *)
(***************************************************************************)
\* years in a stack: one more than the accumulator holds
MaxYears == 9
\* pixels in a raster (height * width)
MaxPixels == 4
\* tile_size of the windowed run, in pixels
MaxTile == 2

\* the raster grid the polygons lie on
GridH == 2
GridW == 3
\* polygons in the input set
MaxPolys == 4
\* area thresholds (in cells) and tiers of a run
MaxThreshold == 2
MaxTiers == 2
\* max_iterations of a direct call that is to run out of iterations
ShortRun == 1

\* years of the lookup table handed to the vector stage
MaxLookupYears == 3
\* records in the polygon set of the vector stage, and their areas (cells)
MaxRecords == 2
MaxArea == 2
\* min_crop_years of the filter, from -1 up
MaxMinCropYears == 2

\* the extents of the tile grid: the origin lies in -MaxOrigin..MaxOrigin,
\* width and height in 0..MaxExtent, tile_size_m in 1..MaxTileSize
MaxOrigin == 1
MaxExtent == 3
MaxTileSize == 3

\* a tiled run: tiles of the run, years start_year .. end_year, rows of a
\* tile output, their gridcodes 0..MaxCode and the cells of their geometries
MaxRunTiles == 2
MaxRunYears == 2
MaxTileRows == 2
MaxCode == 1
MaxCells == 3

Max(a, b) == IF a >= b THEN a ELSE b
Min(a, b) == IF a <= b THEN a ELSE b

(***************************************************************************)
(* uint64 arithmetic, digit by digit                                       *)
(***************************************************************************)
Digits == 1..WordBytes

\* stack[i].astype(np.uint64) for a value 0..255
\* a word as an explicit tuple of its digits
Word(f) == SubSeq(f, 1, WordBytes)

AsU64(v) == Word([k \in Digits |-> IF k = 1 THEN v ELSE 0])

Zero64 == AsU64(0)

\* Whether the Python integer 256 ** i converts to a uint64 operand.
\* 256 ** i < 2 ** 64 iff i < 8.  For i >= 8 numpy refuses the operand:
\* NumPy 2 raises OverflowError (Python integer out of bounds for uint64);
\* NumPy 1 makes the product an object array, and the in-place += into the
\* uint64 accumulator raises UFuncTypeError (same_kind casting).  Either
\* way the statement raises before the accumulator is changed.
PowWraps(i) == TRUE
PowFits(i) == i < WordBytes

\* w * 256 ** i in uint64: the digits move up i places, the top ones drop
MulPow(w, i) == Word([k \in Digits |-> IF k - i >= 1 THEN w[k - i] ELSE 0])

RECURSIVE AddFrom(_, _, _, _)
\* the digits k.. of a + b, given the carry into digit k; the carry out of
\* the top digit is dropped
AddFrom(a, b, k, carry) ==
    IF k > WordBytes THEN << >>
    ELSE LET d == a[k] + b[k] + carry
         IN  <<d % Base>> \o AddFrom(a, b, k + 1, d \div Base)

\* a + b in uint64 (modulo 2 ** 64)
Add64(a, b) == AddFrom(a, b, 1, 0)

\* value % 256 and value // 256 of decode_sequence
Mod256(w) == w[1]
Div256(w) == Word([k \in Digits |-> IF k < WordBytes THEN w[k + 1] ELSE 0])

RECURSIVE Less64From(_, _, _)
Less64From(a, b, k) ==
    IF k = 0 THEN FALSE
    ELSE IF a[k] # b[k] THEN a[k] < b[k]
    ELSE Less64From(a, b, k - 1)

\* a < b as unsigned integers
Less64(a, b) == Less64From(a, b, WordBytes)

RECURSIVE SortWords(_)
\* the ascending order np.unique returns
SortWords(S) ==
    IF S = {} THEN << >>
    ELSE LET m == CHOOSE x \in S : \A y \in S \ {x} : Less64(x, y)
         IN  <<m>> \o SortWords(S \ {m})

(***************************************************************************)
(* The signature encoder: pure functions                                   *)
(***************************************************************************)
RECURSIVE Accumulate(_, _, _)
\* combined = 0; for i in range(n_years): combined += uint64(stack[i]) * 256 ** i
\* for the years i, i+1, ... of the per-year tuple t of one pixel
Accumulate(t, i, acc) ==
    IF i = Len(t) THEN acc
    ELSE Accumulate(t, i + 1, Add64(acc, MulPow(AsU64(t[i + 1]), i)))

\* the combined value of one pixel
Combine(t) == Accumulate(t, 0, Zero64)

\* the accumulation loop raises at the first year whose power does not fit
CombineRaises(n) == \E i \in 0..(n - 1) : ~PowFits(i)

RECURSIVE DecodeWrongDigit(_, _)
DecodeWrongDigit(value, n) ==
    IF n = 0 THEN << >>
    ELSE <<Mod256(Div256(value))>> \o DecodeWrongDigit(Div256(value), n - 1)

RECURSIVE decode_sequence(_, _)
\* for _ in range(n_years): result.append(value % 256); value //= 256
decode_sequence(value, n) ==
    IF n = 0 THEN << >>
    ELSE <<Mod256(value)>> \o decode_sequence(Div256(value), n - 1)

\* position of x in the sequence s (x occurs in s)
IndexOf(s, x) == CHOOSE k \in 1..Len(s) : s[k] = x

\* encode_year_sequence(stack) for stk: pixel -> per-year tuple, n years.
\* unique_vals, inverse = np.unique(combined, return_inverse=True);
\* lookup[code] = decode_sequence(int(val), n_years)
encode_year_sequence(stk, n) ==
    IF CombineRaises(n)
    THEN [called |-> TRUE, raised |-> TRUE]
    ELSE LET combined    == [p \in DOMAIN stk |-> Combine(stk[p])]
             unique_vals == SortWords({combined[p] : p \in DOMAIN stk})
         IN  [called |-> TRUE, raised |-> FALSE,
              coded  |-> [p \in DOMAIN stk |-> IndexOf(unique_vals, combined[p]) - 1],
              lookup |-> [c \in 0..(Len(unique_vals) - 1) |->
                             decode_sequence(unique_vals[c + 1], n)]]

\* calculate_crop_counts: (count0, count45) of one lookup entry
calculate_crop_counts(t) ==
    <<Cardinality({i \in 1..Len(t) : t[i] > 0}),
      Cardinality({i \in 1..Len(t) : t[i] = Barren})>>

(***************************************************************************)
(* Windows of a raster (raster/io.py generate_windows, overlap 0)          *)
(***************************************************************************)
CeilDiv(a, b) == (a + b - 1) \div b

\* the windows in the order generate_windows yields them: row by row
Windows(h, w, ts) ==
    LET ncols == CeilDiv(w, ts)
        nrows == CeilDiv(h, ts)
    IN  [k \in 1..(nrows * ncols) |->
            LET row_off == ((k - 1) \div ncols) * ts
                col_off == ((k - 1) % ncols) * ts
            IN  [col_off |-> col_off, row_off |-> row_off,
                 width   |-> Min(ts, w - col_off),
                 height  |-> Min(ts, h - row_off)]]

Pixels(h, w) == (0..(h - 1)) \X (0..(w - 1))

\* the pixels a window covers
WindowPixels(win) ==
    (win.row_off..(win.row_off + win.height - 1))
        \X (win.col_off..(win.col_off + win.width - 1))

(***************************************************************************)
(* Inputs: per-year tuples a pixel may hold                                *)
(***************************************************************************)
ZeroTuple(n) == [i \in 1..n |-> 0]
LastTuple(n) == [i \in 1..n |-> IF i = n THEN 1 ELSE 0]
RampTuple(n) ==
    [i \in 1..n |-> CASE i % 3 = 1 -> Base - 1
                      [] i % 3 = 2 -> Barren
                      [] OTHER     -> 1]
Palette(n) == {ZeroTuple(n), LastTuple(n), RampTuple(n)}

\* year counts tried: short stacks, the longest that fits, and longer ones
YearChoices == {1, 2, WordBytes} \cup ((WordBytes + 1)..MaxYears)

(***************************************************************************)
(* Polygons on the raster grid                                             *)
(*                                                                         *)
(* A polygon is the set of unit cells <<row, col>> it covers; the polygons *)
(* of a set have disjoint cells, as the regions of one coded raster have.  *)
(* A GeoDataFrame is a sequence of rows [geometry, gridcode, shape_area];  *)
(* row k of the model is positional index k - 1 of the code.               *)
(***************************************************************************)
Cells == (1..GridH) \X (1..GridW)

Abs(x) == IF x < 0 THEN -x ELSE x

\* two cells with a common side
Adjacent(c, d) == Abs(c[1] - d[1]) + Abs(c[2] - d[2]) = 1

\* two cells with a common side or corner, or the same cell
Meet(c, d) == Abs(c[1] - d[1]) <= 1 /\ Abs(c[2] - d[2]) <= 1

\* geometry.area
Area(g) == Cardinality(g)

\* geometry.bounds: (minx, miny, maxx, maxy) of the cells [col-1, col] x [row-1, row]
Bounds(g) ==
    LET rows == {c[1] : c \in g}
        cols == {c[2] : c \in g}
        lo(S) == CHOOSE x \in S : \A y \in S : x <= y
        hi(S) == CHOOSE x \in S : \A y \in S : x >= y
    IN  <<lo(cols) - 1, lo(rows) - 1, hi(cols), hi(rows)>>

\* two closed boxes with a common point
BoxesIntersect(a, b) ==
    /\ a[1] <= b[3] /\ b[1] <= a[3]
    /\ a[2] <= b[4] /\ b[2] <= a[4]

\* a.intersects(b) of two closed polygons (a.touches(b) implies it)
Intersects(a, b) == \E c \in a, d \in b : Meet(c, d)

\* a.touches(b): a common point, but no common interior point
Touches(a, b) == Intersects(a, b) /\ a \cap b = {}

\* a.boundary.intersection(b.boundary).length for polygons of disjoint
\* cells: the unit edges between a cell of a and a cell of b
SharedLength(a, b) == Cardinality({e \in a \X b : Adjacent(e[1], e[2])})

RECURSIVE Grow(_, _)
\* the cells of S joined to those of R through common sides
Grow(R, S) ==
    LET N == R \cup {c \in S : \E d \in R : Adjacent(c, d)}
    IN  IF N = R THEN R ELSE Grow(N, S)

\* the parts (polygons) of the region S
Parts(S) == {Grow({c}, S) : c \in S}

\* isinstance(merged, MultiPolygon)
IsMultiPolygon(S) == Cardinality(Parts(S)) > 1

\* max(merged.geoms, key=lambda x: x.area)
LargestPart(S) == CHOOSE P \in Parts(S) : \A Q \in Parts(S) : Area(P) >= Area(Q)

\* unary_union(geoms), and the largest part of a multi-part result
UnionKeepLargest(geoms) ==
    LET merged == UNION geoms
    IN  IF IsMultiPolygon(merged) THEN LargestPart(merged) ELSE merged

Row(g, code) == [geometry |-> g, gridcode |-> code, shape_area |-> Area(g)]

RECURSIVE SeqOfSet(_)
\* the numbers of S in ascending order
SeqOfSet(S) ==
    IF S = {} THEN << >>
    ELSE LET m == CHOOSE x \in S : \A y \in S : x <= y
         IN  <<m>> \o SeqOfSet(S \ {m})

Reverse(q) == [k \in 1..Len(q) |-> q[Len(q) + 1 - k]]

\* the order in which a spatial index query returns the rows S: the order
\* is the tree's, fixed for a run; ascending and descending stand for it
QueryOrder(S, order) ==
    IF order = "asc" THEN SeqOfSet(S) ELSE Reverse(SeqOfSet(S))

(***************************************************************************)
(* Neighbour search                                                        *)
(***************************************************************************)
\* small_mask = gdf.geometry.area <= area_threshold
IsSmallReversed(a, T) == a >= T
IsSmallStrict(a, T) == a < T
IsSmall(a, T) == a <= T

\* the indices of the small polygons, ascending
SmallSet(g, T) == {k \in 1..Len(g) : IsSmall(Area(g[k].geometry), T)}
small_indices(g, T) == SeqOfSet(SmallSet(g, T))

\* if shared_length > max_shared_length
BetterOrEqual(len, max_len) == len >= max_len
Better(len, max_len) == len > max_len

\* if neighbor_geom.area <= area_threshold: continue
NeighborNeverSkipped(a, T) == FALSE
NeighborIsSmall(a, T) == a <= T

RECURSIVE BestOf(_, _, _, _, _, _, _, _)
\* the loop over the candidates cands[k..] of the small polygon idx, with
\* the best neighbour (0: None) and the longest shared length so far;
\* exact: whether touches / intersects is tested (eliminate.py) or was the
\* predicate of the query (eliminate_fast.py)
BestOf(cands, k, best, max_len, idx, g, T, exact) ==
    IF k > Len(cands) THEN best
    ELSE LET j == cands[k]
             small_geom == g[idx].geometry
             neighbor_geom == g[j].geometry
             len == SharedLength(small_geom, neighbor_geom)
         IN  IF j = idx
             THEN BestOf(cands, k + 1, best, max_len, idx, g, T, exact)
             ELSE IF NeighborIsSmall(Area(neighbor_geom), T)
             THEN BestOf(cands, k + 1, best, max_len, idx, g, T, exact)
             ELSE IF exact /\ ~Touches(small_geom, neighbor_geom)
                           /\ ~Intersects(small_geom, neighbor_geom)
             THEN BestOf(cands, k + 1, best, max_len, idx, g, T, exact)
             ELSE IF Better(len, max_len)
             THEN BestOf(cands, k + 1, j, len, idx, g, T, exact)
             ELSE BestOf(cands, k + 1, best, max_len, idx, g, T, exact)

\* gdf.sindex.intersection(small_geom.bounds): the rows whose box meets it
possible_matches(idx, g, order) ==
    QueryOrder({j \in 1..Len(g) :
                  BoxesIntersect(Bounds(g[j].geometry), Bounds(g[idx].geometry))},
               order)

\* tree.query(small_geom, predicate="intersects")
candidate_indices(idx, g, order) ==
    QueryOrder({j \in 1..Len(g) : Intersects(g[idx].geometry, g[j].geometry)},
               order)

\* find_longest_shared_boundary_neighbor(small_geom, gdf, small_idx, area_threshold)
find_longest_shared_boundary_neighbor(idx, g, T, order) ==
    BestOf(possible_matches(idx, g, order), 1, 0, 0, idx, g, T, TRUE)

\* one pass of the loop of find_neighbor_batch, for the small polygon idx
find_neighbor(idx, g, T, order) ==
    BestOf(candidate_indices(idx, g, order), 1, 0, 0, idx, g, T, FALSE)

\* the merge map of eliminate_small_polygons: the loop over small_indices
build_merge_map(g, T, order) ==
    LET found == [idx \in SmallSet(g, T) |->
                     find_longest_shared_boundary_neighbor(idx, g, T, order)]
    IN  [idx \in {i \in SmallSet(g, T) : found[i] # 0} |-> found[idx]]

\* find_neighbor_batch(indices, geometries, areas, area_threshold, tree)
find_neighbor_batch(indices, g, T, order) ==
    LET S == {indices[k] : k \in 1..Len(indices)}
        found == [idx \in S |-> find_neighbor(idx, g, T, order)]
    IN  [idx \in {i \in S : found[i] # 0} |-> found[idx]]

\* range(0, len(small_indices), batch_size)
BatchStartsSkipping(n, bs) == {i \in 0..(n - 1) : i % (bs + 1) = 0}
BatchStarts(n, bs) == {i \in 0..(n - 1) : i % bs = 0}

\* [small_indices[i:i + batch_size] for i in range(0, len(small_indices), batch_size)]
batches(small, bs) ==
    LET starts == SeqOfSet(BatchStarts(Len(small), bs))
    IN  [b \in 1..Len(starts) |->
            SubSeq(small, starts[b] + 1, Min(starts[b] + bs, Len(small)))]

\* only the result of the first batch is taken
UpdateFirstOnly(results, b, mm) ==
    IF Len(results) = 0 THEN mm ELSE results[1].map

RECURSIVE UpdateAll(_, _, _)
\* merge_map = {}; for result in results: merge_map.update(result)
UpdateAll(results, b, mm) ==
    IF b > Len(results) THEN mm
    ELSE UpdateAll(results, b + 1,
                   [x \in (DOMAIN mm) \cup (DOMAIN results[b].map) |->
                       IF x \in DOMAIN results[b].map THEN results[b].map[x]
                       ELSE mm[x]])

(***************************************************************************)
(* Applying a merge map                                                    *)
(***************************************************************************)
\* the keys of target_to_sources in insertion order: merge_map is filled
\* in ascending order of the sources
TargetsInOrder(mm) ==
    LET firstSource(t) == CHOOSE x \in DOMAIN mm :
                              mm[x] = t /\ \A y \in DOMAIN mm : mm[y] = t => x <= y
        targets == {mm[x] : x \in DOMAIN mm}
        firsts  == SeqOfSet({firstSource(t) : t \in targets})
    IN  [k \in 1..Len(firsts) |-> mm[firsts[k]]]

RECURSIVE MergeIntoTargets(_, _, _, _, _)
\* for target, sources in target_to_sources.items(): skip a dropped target,
\* union the target with its sources not dropped yet, keep the largest part
MergeIntoTargets(targets, k, g, dropped, mm) ==
    IF k > Len(targets) THEN [gdf |-> g, indices_to_drop |-> dropped]
    ELSE LET target == targets[k]
             srcs   == {x \in DOMAIN mm : mm[x] = target /\ x \notin dropped}
             geoms  == {g[target].geometry} \cup {g[x].geometry : x \in srcs}
         IN  IF target \in dropped
             THEN MergeIntoTargets(targets, k + 1, g, dropped, mm)
             ELSE MergeIntoTargets(targets, k + 1,
                      [g EXCEPT ![target].geometry = UnionKeepLargest(geoms)],
                      dropped \cup srcs, mm)

\* gdf.drop(list(indices_to_drop)).reset_index(drop=True), then
\* gdf["shape_area"] = gdf.geometry.area
DropAndRecalculate(g, dropped) ==
    LET kept == SeqOfSet((1..Len(g)) \ dropped)
    IN  [k \in 1..Len(kept) |->
            [g[kept[k]] EXCEPT !.shape_area = Area(g[kept[k]].geometry)]]

\* the merged rows appended, nothing overwritten and nothing dropped
MergeRowsAppending(g, mm) ==
    LET targets == TargetsInOrder(mm)
        r == MergeIntoTargets(targets, 1, g, {}, mm)
    IN  g \o [k \in 1..Len(targets) |-> r.gdf[targets[k]]]

\* a merged target labelled with the gridcode of its first source
MergeRowsSourceCode(g, mm) ==
    LET r == MergeIntoTargets(TargetsInOrder(mm), 1, g, {}, mm)
        first(t) == CHOOSE x \in DOMAIN mm :
                        mm[x] = t /\ \A y \in DOMAIN mm : mm[y] = t => x <= y
        relabelled == [k \in 1..Len(g) |->
                          IF \E x \in DOMAIN mm : mm[x] = k
                          THEN [r.gdf[k] EXCEPT !.gridcode = g[first(k)].gridcode]
                          ELSE r.gdf[k]]
    IN  DropAndRecalculate(relabelled, r.indices_to_drop)

\* apply_merges(gdf, merge_map) and apply_merges_fast(gdf, merge_map)
MergeRows(g, mm) ==
    LET r == MergeIntoTargets(TargetsInOrder(mm), 1, g, {}, mm)
    IN  DropAndRecalculate(r.gdf, r.indices_to_drop)

apply_merges(g, mm) == MergeRows(g, mm)
apply_merges_fast(g, mm) == MergeRows(g, mm)

(***************************************************************************)
(* Inputs of the elimination engine                                        *)
(***************************************************************************)
\* eliminate.py:225, eliminate_fast.py:248  max_iterations=10
DefaultMaxIterations == 10
\* eliminate_fast.py:80  batch_size: int = 1000
DefaultBatchSize == 1000

\* position of a cell in row-major order
ScanIndex(c) == (c[1] - 1) * GridW + c[2]
FirstCell(S) == CHOOSE k \in {ScanIndex(c) : c \in S} :
                    \A c \in S : k <= ScanIndex(c)

\* the regions of a labelling of the grid (0: no polygon, a filtered or
\* nodata pixel), labels in scan order.  A region in one part is a Polygon,
\* a region in several parts a MultiPolygon row
Regions(L, k) == {c \in Cells : L[c] = k}
IsLayout(L) ==
    LET used == {L[c] : c \in Cells} \ {0}
    IN  /\ used = 1..Cardinality(used)
        /\ used # {}
        /\ \A k \in used : k > 1 => FirstCell(Regions(L, k - 1)) < FirstCell(Regions(L, k))

\* the polygon sets a caller can hand over as gdf: the vectorizer's
\* single-part regions and, the engine taking any GeoDataFrame, rows in
\* several parts as well
InputSets(max_polys) ==
    {[k \in 1..Cardinality({L[c] : c \in Cells} \ {0}) |-> Row(Regions(L, k), k)] :
        L \in {M \in [Cells -> 0..max_polys] : IsLayout(M)}}

\* every row of a polygon set is in one part
SinglePart(g) == \A k \in 1..Len(g) : ~IsMultiPolygon(g[k].geometry)

\* lists of thresholds, tiers in increasing order
ThresholdLists ==
    {q \in UNION {[1..n -> 0..MaxThreshold] : n \in 1..MaxTiers} :
        \A i, j \in DOMAIN q : i <= j => q[i] <= q[j]}

(***************************************************************************)
(* The vector stage: the lookup file, enrich_from_lookup and                *)
(* filter_by_crop_presence (vector/vectorize.py)                           *)
(***************************************************************************)
RECURSIVE StrOf(_)
\* str(k) of a code: its decimal digits
StrOf(k) == IF k < 10 THEN <<k>> ELSE StrOf(k \div 10) \o <<k % 10>>

\* the lookup an encoder returns for a stack that holds the three tuples
\* of the palette: codes in ascending order of the combined value
PaletteLookup(n) ==
    LET vals == SortWords({Combine(t) : t \in Palette(n)})
    IN  [c \in 0..(Len(vals) - 1) |-> decode_sequence(vals[c + 1], n)]

\* the years first_year .. first_year + n - 1 (the numbers do not matter)
YearList(n) == [i \in 1..n |-> i]

\* json_lookup = {str(k): {"values": ..., "years": ..., "count0": ...,
\* "count45": ...} for k, v in lookup.items()}, a JSON object being the
\* sequence of its (key, value) pairs in the order they were inserted
json_lookup(lookup, years) ==
    [j \in 1..Cardinality(DOMAIN lookup) |->
        LET k == j - 1
        IN  [key   |-> StrOf(k),
             entry |-> [values  |-> lookup[k],
                        years   |-> years,
                        count0  |-> calculate_crop_counts(lookup[k])[1],
                        count45 |-> calculate_crop_counts(lookup[k])[2]]]]

\* key in lookup
HasKey(json, key) == \E j \in 1..Len(json) : json[j].key = key

\* lookup[key]
Get(json, key) == json[CHOOSE j \in 1..Len(json) : json[j].key = key].entry

\* Python's None
None == "None"

\* lookup.get(str(x), {}).get("values", [None] * len(years))[i]
YearValue(json, x, years, i) ==
    IF HasKey(json, StrOf(x)) THEN Get(json, StrOf(x)).values[i] ELSE None

\* lookup.get(str(x), {}).get("count0", 0) and ...get("count45", 0)
Count0(json, x) == IF HasKey(json, StrOf(x)) THEN Get(json, StrOf(x)).count0 ELSE 0
Count45(json, x) == IF HasKey(json, StrOf(x)) THEN Get(json, StrOf(x)).count45 ELSE 0

\* enrich_from_lookup(gdf, lookup_path): next(iter(lookup.values())) raises
\* StopIteration on a table without entries
enrich_from_lookup(g, json) ==
    IF Len(json) = 0 THEN [raised |-> TRUE]
    ELSE LET first_entry == json[1].entry
             years == first_entry.years
         IN  [raised |-> FALSE,
              gdf |-> [k \in 1..Len(g) |->
                  [index    |-> g[k].index,
                   gridcode |-> g[k].gridcode,
                   geometry |-> g[k].geometry,
                   cdl      |-> [i \in 1..Len(years) |->
                                    YearValue(json, g[k].gridcode, years, i)],
                   count0   |-> Count0(json, g[k].gridcode),
                   count45  |-> Count45(json, g[k].gridcode)]]]

\* mask = (net_crop_years >= min_crop_years) |
\*        ((gdf.geometry.area >= min_area_single_year) & (net_crop_years >= 1))
MaskAreaAlone(r, mcy, mas) ==
    \/ r.count0 - r.count45 >= mcy
    \/ Area(r.geometry) >= mas
MaskNetZero(r, mcy, mas) ==
    \/ r.count0 - r.count45 >= mcy
    \/ Area(r.geometry) >= mas /\ r.count0 - r.count45 >= 0
Mask(r, mcy, mas) ==
    \/ r.count0 - r.count45 >= mcy
    \/ Area(r.geometry) >= mas /\ r.count0 - r.count45 >= 1

\* filter_by_crop_presence(gdf, min_crop_years, min_area_single_year):
\* gdf[mask].copy(), the rows with their index labels
filter_by_crop_presence(g, mcy, mas) ==
    SelectSeq(g, LAMBDA r : Mask(r, mcy, mas))

\* the polygon sets of the vector stage: rows with index labels 0, 1, ...,
\* a gridcode of the table or the next, unused one, and a strip of cells
VectorRows(n_codes) ==
    UNION {[1..n -> (0..n_codes) \X (1..MaxArea)] : n \in 1..MaxRecords}

vectorized(choice) ==
    [k \in 1..Len(choice) |->
        [index    |-> k - 1,
         gridcode |-> choice[k][1],
         geometry |-> {<<1, c>> : c \in 1..choice[k][2]}]]

(***************************************************************************)
(* The tile orchestrator: generate_state_tiles (pipeline/tiled_create.py)  *)
(***************************************************************************)
\* "bounds": (x, y, min(x + tile_size_m, maxx), min(y + tile_size_m, maxy))
TileBoundsUnclipped(x, y, tile_size, maxx, maxy) ==
    <<x, y, x + tile_size, y + tile_size>>
TileBounds(x, y, tile_size, maxx, maxy) ==
    <<x, y, Min(x + tile_size, maxx), Min(y + tile_size, maxy)>>

RECURSIVE WhileX(_, _)
\* while x < maxx: append the tile, tile_idx += 1, x += step, col += 1
WhileX(s, a) ==
    IF s.x < a.maxx
    THEN WhileX([s EXCEPT
                   !.tiles = Append(@, [idx    |-> s.tile_idx,
                                        row    |-> s.row,
                                        col    |-> s.col,
                                        bounds |-> TileBounds(s.x, s.y,
                                            a.tile_size, a.maxx, a.maxy)]),
                   !.tile_idx = @ + 1,
                   !.x = @ + a.step,
                   !.col = @ + 1], a)
    ELSE s

RECURSIVE WhileY(_, _)
\* while y < maxy: x = minx, col = 0, the inner loop, y += step, row += 1
WhileY(s, a) ==
    IF s.y < a.maxy
    THEN LET t == WhileX([s EXCEPT !.x = a.minx, !.col = 0], a)
         IN  WhileY([t EXCEPT !.y = @ + a.step, !.row = @ + 1], a)
    ELSE s

\* a tiling that steps by tile_size + overlap and so leaves gaps
SteppingOverGaps(bounds, tile_size, overlap) ==
    LET a == [minx |-> bounds[1], miny |-> bounds[2],
              maxx |-> bounds[3], maxy |-> bounds[4],
              tile_size |-> tile_size, step |-> tile_size + overlap]
    IN  WhileY([tiles |-> << >>, tile_idx |-> 0,
                x |-> a.minx, y |-> a.miny, row |-> 0, col |-> 0], a).tiles

\* generate_state_tiles(state_bounds, tile_size_m, overlap_m); it returns
\* only when step > 0 or the extent is empty
generate_state_tiles(bounds, tile_size, overlap) ==
    LET a == [minx |-> bounds[1], miny |-> bounds[2],
              maxx |-> bounds[3], maxy |-> bounds[4],
              tile_size |-> tile_size, step |-> tile_size - overlap]
    IN  WhileY([tiles |-> << >>, tile_idx |-> 0,
                x |-> a.minx, y |-> a.miny, row |-> 0, col |-> 0], a).tiles

\* the extent, tile size and overlap of the specification's example
ExampleTiling ==
    [state_bounds |-> <<0, 0, 200, 200>>, tile_size_m |-> 100, overlap_m |-> 10]

\* the windows of combine_cdl_rasters_windowed that are worked on at once,
\* and the years of the stack then
MaxWorkers == 2
ConcurrentYears == 2

\* the arguments of the model: small extents around the origin with every
\* tile size and every overlap smaller than the tile size, and the example
TilingInputs(max_extent) ==
    {ExampleTiling} \cup
    {i \in
    {[state_bounds |-> <<ox, oy, ox + w, oy + h>>,
      tile_size_m |-> ts, overlap_m |-> ov] :
        ox \in (0 - MaxOrigin)..MaxOrigin, oy \in (0 - MaxOrigin)..MaxOrigin,
        w \in 0..max_extent, h \in 0..max_extent,
        ts \in 1..MaxTileSize, ov \in 0..(MaxTileSize - 1)} :
     i.overlap_m < i.tile_size_m}

(***************************************************************************)
(* The tile orchestrator: get_cdl_paths_for_years (raster/io.py),          *)
(* merge_tile_outputs and create_csb_tiled (pipeline/tiled_create.py),     *)
(* create_csb (pipeline/create.py)                                         *)
(***************************************************************************)
\* get_cdl_paths_for_years(base_path, start_year, end_year): the years of
\* the range for which one of the file patterns exists (the keys of paths)
get_cdl_paths_for_years(on_disk, start_year, end_year) ==
    {year \in start_year..end_year : year \in on_disk}

\* max_tiles: None is << >>, a number n is <<n>>; tiles[:max_tiles]
Slice(seq, max) ==
    IF max = << >> THEN seq ELSE SubSeq(seq, 1, Min(max[1], Len(seq)))

\* what happens to a tile in process_tile: the reference raster cannot be
\* opened (or there is none), the stack cannot be read, the stack is all
\* zero, a step after the encoding raises, the vectorizer or the filter
\* leaves no row, or the tile's polygons are saved
TileOutcomes ==
    {"open_failure", "read_failure", "empty_stack", "exception", "no_rows",
     "success"}

\* the outcomes in which process_tile got as far as encode_year_sequence
Encoding == {"exception", "no_rows", "success"}

\* the outcomes in which process_tile raises; in the others it returns
Raising == {"open_failure", "exception"}

\* a line of the standard output and the numbers formatted into it
Line(text, numbers) == [text |-> text, numbers |-> numbers]

\* the tilings of a run: a strip of unit tiles, none, one or several
RunTilings(max_tiles_of_run) ==
    {i \in TilingInputs(max_tiles_of_run) :
        /\ i.state_bounds[1] = 0 /\ i.state_bounds[2] = 0
        /\ i.state_bounds[4] = 1
        /\ i.tile_size_m = 1 /\ i.overlap_m = 0}

\* the per-year tuples in the stack of a tile that has data: some of the
\* palette, not the zero tuple alone, at most max_code + 1 of them
TilePalettes(n, max_code) ==
    {P \in SUBSET Palette(n) :
        P # {} /\ P # {ZeroTuple(n)} /\ Cardinality(P) <= max_code + 1}

\* coded, lookup = encode_year_sequence(stack): the tile's own lookup, its
\* codes counted from 0 in the order of the combined values of the tile
TileLookup(P, n) == encode_year_sequence([t \in P |-> t], n).lookup

\* the polygons of a tile output: runs of cells on a strip that the tiles
\* share where they overlap, each in one part
TileGeometries(max_cells) ==
    {{<<1, x>> : x \in a..b} : a \in 1..max_cells, b \in 1..max_cells} \ {{}}

\* the rows of a saved tile output: vectorize_raster gives a row its
\* gridcode, enrich_from_lookup the per-year values and counts of the
\* tile's lookup entry; rows without a net crop year do not pass the filter
TileRecords(lookup, max_cells) ==
    {[gridcode |-> c, geometry |-> g, shape_area |-> Area(g),
      cdl |-> lookup[c],
      count0 |-> calculate_crop_counts(lookup[c])[1],
      count45 |-> calculate_crop_counts(lookup[c])[2]] :
        c \in {d \in DOMAIN lookup :
                  calculate_crop_counts(lookup[d])[1]
                    - calculate_crop_counts(lookup[d])[2] >= 1},
        g \in TileGeometries(max_cells)}

\* the rows of one tile are regions of one raster: they do not overlap
TileRows(max_rows, n) ==
    UNION {{rows \in UNION {[1..k -> TileRecords(TileLookup(P, n), MaxCells)] :
                              k \in 1..max_rows} :
               \A i, j \in DOMAIN rows :
                   i # j => rows[i].geometry \cap rows[j].geometry = {}} :
           P \in TilePalettes(n, MaxCode)}

\* what process_tile returns: None, or the path of the saved tile output,
\* which stands for the rows in the file
NoOutput == [saved |-> FALSE, rows |-> << >>]
Saved(rows) == [saved |-> TRUE, rows |-> rows]

\* successful = sum(1 for o in tile_outputs if o is not None)
successful(outputs) == Len(SelectSeq(outputs, LAMBDA o : o # NoOutput))

RECURSIVE Concat(_)
\* pd.concat(gdfs, ignore_index=True)
Concat(gdfs) ==
    IF gdfs = << >> THEN << >> ELSE gdfs[1] \o Concat(Tail(gdfs))

\* merged.drop_duplicates(subset=["gridcode", "geometry"]): of the rows with
\* the same gridcode and geometry the first stays
drop_duplicates(rows) ==
    LET dup(k) == \E j \in 1..(k - 1) :
                      /\ rows[j].gridcode = rows[k].gridcode
                      /\ rows[j].geometry = rows[k].geometry
        F[k \in 0..Len(rows)] ==
            IF k = 0 THEN << >>
            ELSE IF dup(k) THEN F[k - 1] ELSE Append(F[k - 1], rows[k])
    IN  F[Len(rows)]

\* merged.dissolve(by="gridcode", aggfunc="first").reset_index(): one row
\* per gridcode, in ascending order, with the union of the group's
\* geometries and the other columns of the group's first row
DissolveFirstGeometry(rows) ==
    LET codes == SeqOfSet({rows[k].gridcode : k \in 1..Len(rows)})
    IN  [n \in 1..Len(codes) |->
            LET first == CHOOSE k \in 1..Len(rows) :
                            /\ rows[k].gridcode = codes[n]
                            /\ \A j \in 1..(k - 1) : rows[j].gridcode # codes[n]
            IN  rows[first]]
dissolve(rows) ==
    LET codes == SeqOfSet({rows[k].gridcode : k \in 1..Len(rows)})
    IN  [n \in 1..Len(codes) |->
            LET group == {k \in 1..Len(rows) : rows[k].gridcode = codes[n]}
                first == CHOOSE k \in group : \A j \in group : k <= j
            IN  [rows[first] EXCEPT
                    !.geometry = UNION {rows[k].geometry : k \in group}]]

\* dissolved["shape_area"] = dissolved.geometry.area
RecalculateArea(rows) ==
    [k \in 1..Len(rows) |-> [rows[k] EXCEPT !.shape_area = Area(rows[k].geometry)]]

\* merge_tile_outputs(tile_outputs, output_path): the outputs are the rows
\* read from the tile files
merge_tile_outputs(tile_outputs) ==
    LET paths == SelectSeq(tile_outputs, LAMBDA o : o.saved)
        gdfs == [k \in 1..Len(paths) |-> paths[k].rows]
    IN  IF gdfs = << >>
        THEN [raised |-> TRUE, error |-> "No valid tile outputs to merge"]
        ELSE [raised |-> FALSE,
              gdf |-> RecalculateArea(dissolve(drop_duplicates(Concat(gdfs))))]

(***************************************************************************)
(* State                                                                   *)
(***************************************************************************)
VARIABLES
    \* the encoder's input: the stack of rasters and the window size
    n_years, height, width, tile_size, stack,
    \* encode_year_sequence: whether it was called and what it returned
    whole,
    \* combine_cdl_rasters_windowed: the persistent table, the raster written
    \* so far, the number of windows processed and where the run stands
    value_to_code, global_lookup, next_code, dst, win, run,
    \* the elimination engine: which implementation runs, its arguments,
    impl, batch_size, thresholds, max_iterations, input,
    \* the order in which the spatial index returns candidates,
    order,
    \* the tier (position in thresholds), the polygon set the tier was
    \* called with, the working set, the iteration, the merge map, the
    \* results of the batches, the place in the code and how the tier ended
    tier, tier_input, gdf, iteration, merge_map, results, pc, exit,
    \* the lines the engine has printed (progress=True), by kind
    printed,
    \* the vector stage: the lookup file, the rows the vectorizer extracted,
    \* the arguments of the filter, the enriched and the filtered rows and
    \* the place in the stage
    lookup_json, vec_gdf, min_crop_years, min_area_single_year,
    enriched, filtered, vpc,
    \* the tile orchestrator: the arguments of generate_state_tiles, the
    \* tiles it returned and the place in the call
    state_bounds, tile_size_m, overlap_m, tiles, gpc,
    \* the locals x, y, row, col and tile_idx of generate_state_tiles while
    \* its loops are followed step by step
    loop,
    \* a run of create_csb or create_csb_tiled: which of the two, max_tiles,
    \* the years start_year..end_year and the years whose raster is on disk,
    \* cdl_paths (its keys), what process_tile returned for the tiles done,
    \* the years of the stacks that were encoded, the merged rows, the place
    \* in the run and the error it raised
    pipeline, max_tiles, start_year, end_year, on_disk, cdl_paths,
    tile_outputs, encoded, merged, rpc, error,
    \* the progress argument of create_csb_tiled and the lines about tiles
    \* that it has printed
    progress, stdout,
    \* the loop body of combine_cdl_rasters_windowed run by several workers
    \* on the one table: whether the test-then-insert is done under a lock,
    \* and each worker's window, values, position, codes and place
    atomic, workers

evars == <<n_years, height, width, tile_size, stack, whole,
           value_to_code, global_lookup, next_code, dst, win, run>>

pvars == <<impl, batch_size, thresholds, max_iterations, input, order,
           tier, tier_input, gdf, iteration, merge_map, results, pc, exit,
           printed>>

vvars == <<lookup_json, vec_gdf, min_crop_years, min_area_single_year,
           enriched, filtered, vpc>>

tvars == <<state_bounds, tile_size_m, overlap_m, tiles, gpc, loop,
           pipeline, max_tiles, start_year, end_year, on_disk, cdl_paths,
           tile_outputs, encoded, merged, rpc, error, progress, stdout>>

\* the variables of a run that a call of generate_state_tiles leaves alone
rvars == <<pipeline, max_tiles, start_year, end_year, on_disk, cdl_paths,
           tile_outputs, encoded, merged, rpc, error, progress, stdout>>

cvars == <<atomic, workers>>

vars == <<evars, pvars, vvars, tvars, cvars>>

\* the variables of the other parts, which a step of one part leaves alone
beside_evars == <<pvars, vvars, tvars, cvars>>
beside_pvars == <<evars, vvars, tvars, cvars>>
beside_vvars == <<evars, pvars, tvars, cvars>>
beside_tvars == <<evars, pvars, vvars, cvars>>
beside_cvars == <<pvars, vvars, tvars>>

\* the empty dict
Empty == << >>

\* the dict d with key k set to v
Put(d, k, v) == [x \in (DOMAIN d) \cup {k} |-> IF x = k THEN v ELSE d[x]]

(***************************************************************************)
(* combine_cdl_rasters_windowed: one window                                *)
(***************************************************************************)
RECURSIVE MapAlwaysNew(_, _, _, _, _)
\* the membership test left out: every value of every window gets a new code
MapAlwaysNew(vals, k, vtc, gl, nc) ==
    IF k > Len(vals) THEN [vtc |-> vtc, gl |-> gl, nc |-> nc]
    ELSE MapAlwaysNew(vals, k + 1,
                      Put(vtc, vals[k], nc),
                      Put(gl, nc, decode_sequence(vals[k], n_years)),
                      nc + 1)

RECURSIVE MapIncrementFirst(_, _, _, _, _)
\* next_code incremented before the lookup entry is stored
MapIncrementFirst(vals, k, vtc, gl, nc) ==
    IF k > Len(vals) THEN [vtc |-> vtc, gl |-> gl, nc |-> nc]
    ELSE IF vals[k] \in DOMAIN vtc
         THEN MapIncrementFirst(vals, k + 1, vtc, gl, nc)
         ELSE MapIncrementFirst(vals, k + 1,
                                Put(vtc, vals[k], nc),
                                Put(gl, nc + 1, decode_sequence(vals[k], n_years)),
                                nc + 1)

RECURSIVE MapToGlobalCodes(_, _, _, _, _)
\* for val in np.unique(combined):
\*     if val not in value_to_code:
\*         value_to_code[val] = next_code
\*         global_lookup[next_code] = decode_sequence(val, n_years)
\*         next_code += 1
\* over the values vals[k..], from the table (vtc, gl, nc)
MapToGlobalCodes(vals, k, vtc, gl, nc) ==
    IF k > Len(vals) THEN [vtc |-> vtc, gl |-> gl, nc |-> nc]
    ELSE IF vals[k] \in DOMAIN vtc
         THEN MapToGlobalCodes(vals, k + 1, vtc, gl, nc)
         ELSE MapToGlobalCodes(vals, k + 1,
                               Put(vtc, vals[k], nc),
                               Put(gl, nc, decode_sequence(vals[k], n_years)),
                               nc + 1)

TheWindows == Windows(height, width, tile_size)

\* the elimination engine at rest, while the encoder is looked at
EliminateIdle ==
    /\ impl = "slow" /\ batch_size = DefaultBatchSize
    /\ thresholds = << >> /\ max_iterations = DefaultMaxIterations
    /\ input = << >> /\ order = "asc"
    /\ tier = 0 /\ tier_input = << >> /\ gdf = << >>
    /\ iteration = 0 /\ merge_map = Empty /\ results = << >>
    /\ pc = "idle" /\ exit = "none" /\ printed = << >>

\* the vector stage at rest
VectorIdle ==
    /\ lookup_json = << >> /\ vec_gdf = << >>
    /\ min_crop_years = 0 /\ min_area_single_year = 0
    /\ enriched = << >> /\ filtered = << >> /\ vpc = "idle"

\* the locals of generate_state_tiles outside a call
LoopIdle == [x |-> 0, y |-> 0, row |-> 0, col |-> 0, tile_idx |-> 0]

\* no run of a pipeline
RunIdle ==
    /\ pipeline = "none" /\ max_tiles = << >>
    /\ start_year = 0 /\ end_year = 0 /\ on_disk = {} /\ cdl_paths = {}
    /\ tile_outputs = << >> /\ encoded = {} /\ merged = << >>
    /\ rpc = "idle" /\ error = ""
    /\ progress = FALSE /\ stdout = << >>

\* the tile orchestrator at rest
TiledIdle ==
    /\ state_bounds = <<0, 0, 0, 0>> /\ tile_size_m = 0 /\ overlap_m = 0
    /\ tiles = << >> /\ gpc = "idle" /\ loop = LoopIdle
    /\ RunIdle

\* the workers of the windowed encoder
Workers == 1..MaxWorkers

\* a worker between two windows
IdleWorker == [window |-> 0, vals |-> << >>, k |-> 0, coded |-> << >>,
               pc |-> "idle"]

\* the windowed encoder run as the code runs it: by one thread
ConcurrentIdle == atomic = TRUE /\ workers = [w \in Workers |-> IdleWorker]

\* the encoder at rest, while the elimination engine is looked at
EncoderIdle ==
    /\ ConcurrentIdle
    /\ n_years = 1 /\ height = 1 /\ width = 1 /\ tile_size = 1
    /\ stack = [p \in Pixels(1, 1) |-> ZeroTuple(1)]
    /\ whole = [called |-> FALSE]
    /\ value_to_code = Empty /\ global_lookup = Empty /\ next_code = 0
    /\ dst = Empty /\ win = 0 /\ run = "idle"

InitEncoder ==
    /\ EliminateIdle /\ VectorIdle /\ TiledIdle /\ ConcurrentIdle
    /\ n_years \in YearChoices
    /\ height \in 1..MaxPixels
    /\ width \in 1..MaxPixels
    /\ height * width <= MaxPixels
    /\ tile_size \in 1..MaxTile
    /\ stack \in [Pixels(height, width) -> Palette(n_years)]
    /\ whole = [called |-> FALSE]
    /\ value_to_code = Empty
    /\ global_lookup = Empty
    /\ next_code = 0
    /\ dst = Empty
    /\ win = 0
    /\ run = "idle"

\* coded, lookup = encode_year_sequence(stack) on the whole array
EncodeWhole ==
    /\ ~whole.called
    /\ whole' = encode_year_sequence(stack, n_years)
    /\ UNCHANGED <<n_years, height, width, tile_size, stack,
                   value_to_code, global_lookup, next_code, dst, win, run>>
    /\ UNCHANGED beside_evars

\* combine_cdl_rasters_windowed up to its loop: the empty table
StartWindowed ==
    /\ whole.called
    /\ run = "idle"
    /\ run' = "windows"
    /\ UNCHANGED <<n_years, height, width, tile_size, stack, whole,
                   value_to_code, global_lookup, next_code, dst, win>>
    /\ UNCHANGED beside_evars

\* one pass of the loop over the windows: read, combine, map, write
ProcessWindow ==
    /\ run = "windows"
    /\ win < Len(TheWindows)
    /\ LET window == TheWindows[win + 1]
           px     == WindowPixels(window)
       IN  IF CombineRaises(n_years)
           THEN /\ run' = "raised"
                /\ UNCHANGED <<value_to_code, global_lookup, next_code, dst, win>>
           ELSE LET combined == [p \in px |-> Combine(stack[p])]
                    vals     == SortWords({combined[p] : p \in px})
                    t        == MapToGlobalCodes(vals, 1, value_to_code,
                                                 global_lookup, next_code)
                IN  /\ value_to_code' = t.vtc
                    /\ global_lookup' = t.gl
                    /\ next_code' = t.nc
                    /\ dst' = [p \in (DOMAIN dst) \cup px |->
                                  IF p \in px THEN t.vtc[combined[p]] ELSE dst[p]]
                    /\ win' = win + 1
                    /\ run' = run
    /\ UNCHANGED <<n_years, height, width, tile_size, stack, whole>>
    /\ UNCHANGED beside_evars

\* the loop is over: the lookup is saved and the function returns
FinishWindowed ==
    /\ run = "windows"
    /\ win = Len(TheWindows)
    /\ run' = "done"
    /\ UNCHANGED <<n_years, height, width, tile_size, stack, whole,
                   value_to_code, global_lookup, next_code, dst, win>>
    /\ UNCHANGED beside_evars

NextEncoder == EncodeWhole \/ StartWindowed \/ ProcessWindow \/ FinishWindowed

SpecEncoder == InitEncoder /\ [][NextEncoder]_vars

(***************************************************************************)
(* The loop body of combine_cdl_rasters_windowed run by several workers    *)
(* that share value_to_code, global_lookup and next_code                   *)
(***************************************************************************)
InitConcurrent ==
    /\ EliminateIdle /\ VectorIdle /\ TiledIdle
    /\ n_years = ConcurrentYears
    /\ height = 1
    /\ width \in 2..MaxPixels
    /\ tile_size \in 1..MaxTile
    /\ stack \in [Pixels(height, width) -> Palette(n_years)]
    /\ whole = [called |-> FALSE]
    /\ value_to_code = Empty /\ global_lookup = Empty /\ next_code = 0
    /\ dst = Empty /\ win = 0 /\ run = "windows"
    /\ atomic \in BOOLEAN
    /\ workers = [w \in Workers |-> IdleWorker]

\* the value the worker is at: val of "for val in np.unique(combined)"
Val(w) == workers[w].vals[workers[w].k]

\* a worker takes the next window: read the stack, combine, np.unique
TakeWindow(w) ==
    /\ run = "windows"
    /\ workers[w].pc = "idle"
    /\ win < Len(TheWindows)
    /\ LET px == WindowPixels(TheWindows[win + 1])
       IN  workers' = [workers EXCEPT ![w] =
               [window |-> win + 1,
                vals   |-> SortWords({Combine(stack[p]) : p \in px}),
                k      |-> 1,
                coded  |-> Empty,
                pc     |-> "test"]]
    /\ win' = win + 1
    /\ UNCHANGED <<n_years, height, width, tile_size, stack, whole,
                   value_to_code, global_lookup, next_code, dst, run, atomic>>
    /\ UNCHANGED beside_cvars

\* if val not in value_to_code
TestStep(w) ==
    /\ workers[w].pc = "test"
    /\ workers' = [workers EXCEPT ![w].pc =
                      IF Val(w) \in DOMAIN value_to_code
                      THEN "mask" ELSE "set_code"]
    /\ UNCHANGED <<n_years, height, width, tile_size, stack, whole,
                   value_to_code, global_lookup, next_code, dst, win, run,
                   atomic>>
    /\ UNCHANGED beside_cvars

\* the test, when nothing keeps another worker from running after it
Test(w) == ~atomic /\ TestStep(w)

\* the test alone where the lock should hold the four statements together
TestWithoutLock(w) == atomic /\ TestStep(w)

\* value_to_code[val] = next_code
SetCode(w) ==
    /\ workers[w].pc = "set_code"
    /\ value_to_code' = Put(value_to_code, Val(w), next_code)
    /\ workers' = [workers EXCEPT ![w].pc = "set_lookup"]
    /\ UNCHANGED <<n_years, height, width, tile_size, stack, whole,
                   global_lookup, next_code, dst, win, run, atomic>>
    /\ UNCHANGED beside_cvars

\* global_lookup[next_code] = decode_sequence(val, n_years)
SetLookup(w) ==
    /\ workers[w].pc = "set_lookup"
    /\ global_lookup' = Put(global_lookup, next_code,
                            decode_sequence(Val(w), n_years))
    /\ workers' = [workers EXCEPT ![w].pc = "increment"]
    /\ UNCHANGED <<n_years, height, width, tile_size, stack, whole,
                   value_to_code, next_code, dst, win, run, atomic>>
    /\ UNCHANGED beside_cvars

\* next_code += 1
Increment(w) ==
    /\ workers[w].pc = "increment"
    /\ next_code' = next_code + 1
    /\ workers' = [workers EXCEPT ![w].pc = "mask"]
    /\ UNCHANGED <<n_years, height, width, tile_size, stack, whole,
                   value_to_code, global_lookup, dst, win, run, atomic>>
    /\ UNCHANGED beside_cvars

\* the test and the three statements under it as one step, no other worker
\* in between
TestAndInsert(w) ==
    /\ atomic
    /\ workers[w].pc = "test"
    /\ LET t == MapToGlobalCodes(<<Val(w)>>, 1, value_to_code, global_lookup,
                                 next_code)
       IN  /\ value_to_code' = t.vtc
           /\ global_lookup' = t.gl
           /\ next_code' = t.nc
    /\ workers' = [workers EXCEPT ![w].pc = "mask"]
    /\ UNCHANGED <<n_years, height, width, tile_size, stack, whole,
                   dst, win, run, atomic>>
    /\ UNCHANGED beside_cvars

\* mask = combined == val; coded[mask] = value_to_code[val]; the next val
MaskCoded(w) ==
    /\ workers[w].pc = "mask"
    /\ workers' = [workers EXCEPT
                      ![w].coded = Put(@, Val(w), value_to_code[Val(w)]),
                      ![w].k = @ + 1,
                      ![w].pc = IF workers[w].k < Len(workers[w].vals)
                                THEN "test" ELSE "write"]
    /\ UNCHANGED <<n_years, height, width, tile_size, stack, whole,
                   value_to_code, global_lookup, next_code, dst, win, run,
                   atomic>>
    /\ UNCHANGED beside_cvars

\* dst.write(coded, 1, window=window)
WriteWindow(w) ==
    /\ workers[w].pc = "write"
    /\ LET px == WindowPixels(TheWindows[workers[w].window])
       IN  dst' = [p \in (DOMAIN dst) \cup px |->
                      IF p \in px THEN workers[w].coded[Combine(stack[p])]
                      ELSE dst[p]]
    /\ workers' = [workers EXCEPT ![w] = IdleWorker]
    /\ UNCHANGED <<n_years, height, width, tile_size, stack, whole,
                   value_to_code, global_lookup, next_code, win, run, atomic>>
    /\ UNCHANGED beside_cvars

\* every window is written: the lookup is saved and the function returns
FinishConcurrent ==
    /\ run = "windows"
    /\ win = Len(TheWindows)
    /\ \A w \in Workers : workers[w].pc = "idle"
    /\ run' = "done"
    /\ UNCHANGED <<n_years, height, width, tile_size, stack, whole,
                   value_to_code, global_lookup, next_code, dst, win>>
    /\ UNCHANGED cvars
    /\ UNCHANGED beside_cvars

NextConcurrent ==
    \/ \E w \in Workers :
          \/ TakeWindow(w) \/ Test(w) \/ SetCode(w) \/ SetLookup(w)
          \/ Increment(w) \/ TestAndInsert(w) \/ MaskCoded(w)
          \/ WriteWindow(w)
    \/ FinishConcurrent

SpecConcurrent == InitConcurrent /\ [][NextConcurrent]_vars

(***************************************************************************)
(* Claims about the encoder, under SpecEncoder                             *)
(***************************************************************************)
Written == DOMAIN dst

\* the window (its position in TheWindows) that holds pixel p
WindowOf(p) == CHOOSE k \in 1..Len(TheWindows) : p \in WindowPixels(TheWindows[k])

\* C1: round trip.  For a stack of at most 8 years, decoding the combined
\* value of any pixel's per-year tuple gives that tuple back, and once
\* encode_year_sequence has returned, the lookup entry of the code of every
\* pixel is that pixel's per-year tuple.
C1_RoundTrip ==
    /\ n_years <= WordBytes =>
         \A p \in DOMAIN stack :
             decode_sequence(Combine(stack[p]), n_years) = stack[p]
    /\ (whole.called /\ ~whole.raised) =>
         \A p \in DOMAIN stack :
             /\ whole.coded[p] \in DOMAIN whole.lookup
             /\ whole.lookup[whole.coded[p]] = stack[p]

C1_Witness ==
    /\ n_years = WordBytes
    /\ whole.called /\ ~whole.raised
    /\ \E p, q \in DOMAIN stack :
         /\ whole.coded[p] # whole.coded[q]
         /\ stack[p] = RampTuple(n_years)
         /\ stack[q] = LastTuple(n_years)

\* C2: in the windowed run, after any prefix of the windows, every pixel
\* written with code c has the per-year tuple global_lookup[c], and two
\* written pixels carry the same code iff they have the same tuple.
C2_WindowedCodes ==
    /\ \A p \in Written :
         /\ dst[p] \in DOMAIN global_lookup
         /\ global_lookup[dst[p]] = stack[p]
    /\ \A p, q \in Written : (dst[p] = dst[q]) <=> (stack[p] = stack[q])

C2_Witness ==
    /\ run = "windows" /\ win >= 2 /\ win < Len(TheWindows)
    /\ \E p, q \in Written :
         /\ WindowOf(p) # WindowOf(q)
         /\ stack[p] = stack[q]
         /\ dst[p] = dst[q]
    /\ \E p, q \in Written : dst[p] # dst[q]

\* the per-year tuples a lookup table holds
TuplesOf(lookup) == {lookup[c] : c \in DOMAIN lookup}

\* C3: on the same stack the whole-array and the windowed encoding agree up
\* to a renaming of codes: the two lookups hold the same tuples, each once,
\* and two pixels have equal codes in one mode iff they have in the other;
\* and one mode raises iff the other does.
C3_WholeVsWindowed ==
    /\ run = "done" =>
         /\ whole.called /\ ~whole.raised
         /\ TuplesOf(whole.lookup) = TuplesOf(global_lookup)
         /\ Cardinality(DOMAIN whole.lookup) = Cardinality(TuplesOf(whole.lookup))
         /\ Cardinality(DOMAIN global_lookup) = Cardinality(TuplesOf(global_lookup))
         /\ DOMAIN dst = DOMAIN stack
         /\ \A p, q \in DOMAIN stack :
              (whole.coded[p] = whole.coded[q]) <=> (dst[p] = dst[q])
    /\ run = "raised" => whole.raised

C3_Witness ==
    /\ run = "done"
    /\ Len(TheWindows) >= 2
    /\ Cardinality(DOMAIN global_lookup) >= 2
    /\ \E p \in DOMAIN stack : whole.coded[p] # dst[p]

Seen(k) ==
    {Combine(stack[p]) :
        p \in UNION {WindowPixels(TheWindows[j]) : j \in 1..k}}

\* the window in which the combined value a is met first, seen[k] being the
\* values of the first k windows
FirstWindow(a, seen) ==
    CHOOSE k \in 1..Len(seen) : a \in seen[k] /\ (k > 1 => a \notin seen[k - 1])

\* the table is dense and numbered in first-seen order: a value met in an
\* earlier window, or in the same window and smaller, has the smaller code
TableDense ==
    (run \in {"windows", "done"} /\ ~CombineRaises(n_years)) =>
        LET seen  == [k \in 1..win |-> Seen(k)]
            first == [a \in DOMAIN value_to_code |-> FirstWindow(a, seen)]
        IN  /\ DOMAIN value_to_code = Seen(win)
            /\ Cardinality(DOMAIN value_to_code) = next_code
            /\ Cardinality(DOMAIN global_lookup) = next_code
            /\ DOMAIN global_lookup = 0..(next_code - 1)
            /\ {value_to_code[a] : a \in DOMAIN value_to_code} = 0..(next_code - 1)
            /\ \A a, b \in DOMAIN value_to_code :
                 /\ a # b => value_to_code[a] # value_to_code[b]
                 /\ (first[a] < first[b] \/ (first[a] = first[b] /\ Less64(a, b)))
                      => value_to_code[a] < value_to_code[b]

\* a step keeps every entry of both tables as it is
TableAppendOnly ==
    /\ next_code' >= next_code
    /\ \A a \in DOMAIN value_to_code :
         a \in DOMAIN value_to_code' /\ value_to_code'[a] = value_to_code[a]
    /\ \A c \in DOMAIN global_lookup :
         c \in DOMAIN global_lookup' /\ global_lookup'[c] = global_lookup[c]

\* C20: in the windowed run the value -> code table is dense and append-only:
\* after every window next_code = |value_to_code| = |global_lookup|, the
\* codes in use are 0..next_code-1, value_to_code is injective, codes follow
\* the order in which the combined values are first met (ascending value
\* within a window), and no step changes or removes an entry.
C20_TableAppendOnlyDense == [](TableDense) /\ [][TableAppendOnly]_vars

\* a finished run of two windows or more in which the second window met a
\* known value again and a new value smaller than one of the first window
C20_Witness ==
    /\ run = "done" /\ win >= 2 /\ ~CombineRaises(n_years)
    /\ Seen(1) \cap (Seen(2) \ Seen(1)) = {}
    /\ \E a \in Seen(1) :
         /\ a \in {Combine(stack[p]) : p \in WindowPixels(TheWindows[2])}
         /\ \E b \in Seen(2) \ Seen(1) :
              Less64(b, a) /\ value_to_code[a] < value_to_code[b]

(***************************************************************************)
(* The elimination engine: tiered_eliminate / tiered_eliminate_fast over   *)
(* eliminate_small_polygons / eliminate_fast                               *)
(***************************************************************************)
\* area_threshold of the running tier
Threshold == thresholds[tier]

TheBatches == batches(small_indices(gdf, Threshold), batch_size)

InitEliminate ==
    /\ EncoderIdle /\ VectorIdle /\ TiledIdle
    /\ impl \in {"slow", "fast"}
    /\ thresholds \in ThresholdLists
    /\ \/ max_iterations = DefaultMaxIterations
       \/ Len(thresholds) = 1 /\ max_iterations \in 1..ShortRun
    /\ \/ batch_size = DefaultBatchSize
       \/ impl = "fast" /\ Len(thresholds) = 1 /\ batch_size = 1
    /\ order \in {"asc", "desc"}
    /\ input \in InputSets(MaxPolys)
    /\ gdf = input
    /\ tier = 0 /\ tier_input = << >>
    /\ iteration = 0 /\ merge_map = Empty /\ results = << >>
    /\ pc = "call" /\ exit = "none" /\ printed = << >>

\* the next tier is called: gdf = gdf.copy().reset_index(drop=True)
CallTier ==
    /\ pc \in {"call", "returned"}
    /\ tier < Len(thresholds)
    /\ tier' = tier + 1
    /\ tier_input' = gdf
    /\ iteration' = 0
    /\ merge_map' = Empty
    /\ results' = << >>
    /\ pc' = "loop"
    /\ exit' = "none"
    /\ UNCHANGED <<impl, batch_size, thresholds, max_iterations, input, order, gdf>>
    /\ printed' = printed \o (<<"tier">>)
    /\ UNCHANGED beside_pvars

\* if n_small == 0: break
NoSmallLeft ==
    /\ pc = "loop"
    /\ SmallSet(gdf, Threshold) = {}
    /\ pc' = "returned"
    /\ exit' = "no_small"
    /\ UNCHANGED <<impl, batch_size, thresholds, max_iterations, input, order,
                   tier, tier_input, gdf, iteration, merge_map, results>>
    /\ printed' = printed \o (<<"no_small_remaining", "after_tier">>)
    /\ UNCHANGED beside_pvars

\* eliminate_small_polygons: the loop over small_indices builds merge_map
FindNeighbors ==
    /\ pc = "loop"
    /\ impl = "slow"
    /\ SmallSet(gdf, Threshold) # {}
    /\ merge_map' = build_merge_map(gdf, Threshold, order)
    /\ pc' = "merge"
    /\ UNCHANGED <<impl, batch_size, thresholds, max_iterations, input, order,
                   tier, tier_input, gdf, iteration, results, exit>>
    /\ printed' = printed \o (<<"iteration">>)
    /\ UNCHANGED beside_pvars

\* eliminate_fast: the snapshot is taken and the batches are handed out
StartSearch ==
    /\ pc = "loop"
    /\ impl = "fast"
    /\ SmallSet(gdf, Threshold) # {}
    /\ results' = [b \in 1..Len(TheBatches) |-> [done |-> FALSE, map |-> Empty]]
    /\ merge_map' = Empty
    /\ pc' = "search"
    /\ UNCHANGED <<impl, batch_size, thresholds, max_iterations, input, order,
                   tier, tier_input, gdf, iteration, exit>>
    /\ printed' = printed \o (<<"iteration">>)
    /\ UNCHANGED beside_pvars

\* one worker thread runs find_neighbor_batch on a batch, in any order
RunBatch ==
    /\ pc = "search"
    /\ \E b \in DOMAIN results :
         /\ ~results[b].done
         /\ results' = [results EXCEPT ![b] =
                [done |-> TRUE,
                 map  |-> find_neighbor_batch(TheBatches[b], gdf, Threshold, order)]]
    /\ UNCHANGED <<impl, batch_size, thresholds, max_iterations, input, order,
                   tier, tier_input, gdf, iteration, merge_map, pc, exit>>
    /\ printed' = printed
    /\ UNCHANGED beside_pvars

\* Parallel(...) returns the results in batch order; they are combined
CombineResults ==
    /\ pc = "search"
    /\ \A b \in DOMAIN results : results[b].done
    /\ merge_map' = UpdateAll(results, 1, Empty)
    /\ pc' = "merge"
    /\ UNCHANGED <<impl, batch_size, thresholds, max_iterations, input, order,
                   tier, tier_input, gdf, iteration, results, exit>>
    /\ printed' = printed
    /\ UNCHANGED beside_pvars

\* if not merge_map: break
NoMergeFoundDropsSmall ==
    /\ pc = "merge"
    /\ merge_map = Empty
    /\ pc' = "returned"
    /\ exit' = "no_merge"
    /\ gdf' = SelectSeq(gdf, LAMBDA r : ~IsSmall(Area(r.geometry), Threshold))
    /\ UNCHANGED <<impl, batch_size, thresholds, max_iterations, input, order,
                   tier, tier_input, iteration, merge_map, results>>
    /\ printed' = printed \o (<<"no_more_merges", "after_tier">>)
    /\ UNCHANGED beside_pvars
NoMergeFound ==
    /\ pc = "merge"
    /\ merge_map = Empty
    /\ pc' = "returned"
    /\ exit' = "no_merge"
    /\ UNCHANGED <<impl, batch_size, thresholds, max_iterations, input, order,
                   tier, tier_input, gdf, iteration, merge_map, results>>
    /\ printed' = printed \o (<<"no_more_merges", "after_tier">>)
    /\ UNCHANGED beside_pvars

\* gdf = apply_merges(gdf, merge_map); the for loop goes on or runs out
ApplyMerges ==
    /\ pc = "merge"
    /\ merge_map # Empty
    /\ gdf' = IF impl = "slow" THEN apply_merges(gdf, merge_map)
              ELSE apply_merges_fast(gdf, merge_map)
    /\ iteration' = iteration + 1
    /\ IF iteration + 1 = max_iterations
       THEN pc' = "returned" /\ exit' = "exhausted"
       ELSE pc' = "loop" /\ exit' = exit
    /\ UNCHANGED <<impl, batch_size, thresholds, max_iterations, input, order,
                   tier, tier_input, merge_map, results>>
    /\ printed' = printed \o (IF iteration + 1 = max_iterations
                            THEN <<"merged", "after_tier">> ELSE <<"merged">>)
    /\ UNCHANGED beside_pvars

\* the last tier has returned
Finish ==
    /\ pc = "returned"
    /\ tier = Len(thresholds)
    /\ pc' = "finished"
    /\ UNCHANGED <<impl, batch_size, thresholds, max_iterations, input, order,
                   tier, tier_input, gdf, iteration, merge_map, results, exit>>
    /\ printed' = printed
    /\ UNCHANGED beside_pvars

NextEliminate ==
    \/ CallTier \/ NoSmallLeft \/ FindNeighbors \/ StartSearch \/ RunBatch
    \/ CombineResults \/ NoMergeFound \/ ApplyMerges \/ Finish

SpecEliminate == InitEliminate /\ [][NextEliminate]_vars

(***************************************************************************)
(* The vector stage: vectorize_raster hands its rows to enrich_from_lookup, *)
(* the pipeline hands the result to filter_by_crop_presence                *)
(***************************************************************************)
InitVector ==
    /\ EncoderIdle /\ EliminateIdle /\ TiledIdle
    /\ \E n \in 1..MaxLookupYears :
         /\ lookup_json \in {json_lookup(PaletteLookup(n), YearList(n)), << >>}
         /\ vec_gdf \in {vectorized(ch) :
                           ch \in VectorRows(Cardinality(Palette(n)))}
    /\ min_crop_years \in (0 - 1)..MaxMinCropYears
    /\ min_area_single_year \in 1..(MaxArea + 1)
    /\ enriched = << >> /\ filtered = << >>
    /\ vpc = "vectorized"

\* gdf = enrich_from_lookup(gdf, lookup_path)
Enrich ==
    /\ vpc = "vectorized"
    /\ LET r == enrich_from_lookup(vec_gdf, lookup_json)
       IN  IF r.raised
           THEN vpc' = "raised" /\ enriched' = enriched
           ELSE vpc' = "enriched" /\ enriched' = r.gdf
    /\ UNCHANGED <<lookup_json, vec_gdf, min_crop_years, min_area_single_year,
                   filtered>>
    /\ UNCHANGED beside_vvars

\* gdf = filter_by_crop_presence(gdf, min_crop_years, min_area_single_year)
Filter ==
    /\ vpc = "enriched"
    /\ filtered' = filter_by_crop_presence(enriched, min_crop_years,
                                           min_area_single_year)
    /\ vpc' = "filtered"
    /\ UNCHANGED <<lookup_json, vec_gdf, min_crop_years, min_area_single_year,
                   enriched>>
    /\ UNCHANGED beside_vvars

NextVector == Enrich \/ Filter

SpecVector == InitVector /\ [][NextVector]_vars

(***************************************************************************)
(* Tile generation: a call of generate_state_tiles                         *)
(***************************************************************************)
InitTiles ==
    /\ EncoderIdle /\ EliminateIdle /\ VectorIdle
    /\ \E i \in TilingInputs(MaxExtent) :
         /\ state_bounds = i.state_bounds
         /\ tile_size_m = i.tile_size_m
         /\ overlap_m = i.overlap_m
    /\ tiles = << >>
    /\ gpc = "called" /\ loop = LoopIdle
    /\ RunIdle

\* tiles = generate_state_tiles(state_bounds, tile_size_m, overlap_m)
GenerateTiles ==
    /\ gpc = "called"
    /\ tiles' = generate_state_tiles(state_bounds, tile_size_m, overlap_m)
    /\ gpc' = "returned"
    /\ UNCHANGED <<state_bounds, tile_size_m, overlap_m, loop>>
    /\ UNCHANGED rvars
    /\ UNCHANGED beside_tvars

NextTiles == GenerateTiles

SpecTiles == InitTiles /\ [][NextTiles]_vars

(***************************************************************************)
(* Tile generation step by step: the two while loops of                    *)
(* generate_state_tiles                                                    *)
(***************************************************************************)
\* a step that is never below one
StepAtLeastOne(size_m, over_m) == Max(1, size_m - over_m)

\* step = tile_size_m - overlap_m
Step(size_m, over_m) == size_m - over_m

\* the arguments of a call that is followed step by step: the extents of
\* TilingInputs with every overlap, those of the tile size and above too
LoopInputs(max_extent) ==
    {[state_bounds |-> <<ox, oy, ox + w, oy + h>>,
      tile_size_m |-> ts, overlap_m |-> ov] :
        ox \in (0 - MaxOrigin)..MaxOrigin, oy \in (0 - MaxOrigin)..MaxOrigin,
        w \in 0..max_extent, h \in 0..max_extent,
        ts \in 1..MaxTileSize, ov \in 0..MaxTileSize}

\* the model follows a loop that does not end for this many tiles or rows
LoopCap == (MaxExtent + 1) * (MaxExtent + 1)

InitTileLoop ==
    /\ EncoderIdle /\ EliminateIdle /\ VectorIdle
    /\ \E i \in LoopInputs(MaxExtent) :
         /\ state_bounds = i.state_bounds
         /\ tile_size_m = i.tile_size_m
         /\ overlap_m = i.overlap_m
    /\ tiles = << >>
    /\ gpc = "called" /\ loop = LoopIdle
    /\ RunIdle

\* tiles = []; tile_idx = 0; step = ...; y = miny; row = 0
EnterLoop ==
    /\ gpc = "called"
    /\ tiles' = << >>
    /\ loop' = [x |-> 0, y |-> state_bounds[2], row |-> 0, col |-> 0,
                tile_idx |-> 0]
    /\ gpc' = "while_y"
    /\ UNCHANGED <<state_bounds, tile_size_m, overlap_m>>
    /\ UNCHANGED rvars
    /\ UNCHANGED beside_tvars

\* while y < maxy: x = minx; col = 0
EnterRow ==
    /\ gpc = "while_y"
    /\ loop.y < state_bounds[4]
    /\ loop' = [loop EXCEPT !.x = state_bounds[1], !.col = 0]
    /\ gpc' = "while_x"
    /\ UNCHANGED <<state_bounds, tile_size_m, overlap_m, tiles>>
    /\ UNCHANGED rvars
    /\ UNCHANGED beside_tvars

\* while x < maxx: tiles.append(tile); tile_idx += 1; x += step; col += 1
AppendTile ==
    /\ gpc = "while_x"
    /\ loop.x < state_bounds[3]
    /\ Len(tiles) < LoopCap
    /\ tiles' = Append(tiles, [idx    |-> loop.tile_idx,
                               row    |-> loop.row,
                               col    |-> loop.col,
                               bounds |-> TileBounds(loop.x, loop.y,
                                   tile_size_m, state_bounds[3],
                                   state_bounds[4])])
    /\ loop' = [loop EXCEPT !.tile_idx = @ + 1,
                            !.x = @ + Step(tile_size_m, overlap_m),
                            !.col = @ + 1]
    /\ UNCHANGED <<state_bounds, tile_size_m, overlap_m, gpc>>
    /\ UNCHANGED rvars
    /\ UNCHANGED beside_tvars

\* the inner loop is left: y += step; row += 1
NextRow ==
    /\ gpc = "while_x"
    /\ ~(loop.x < state_bounds[3])
    /\ loop.row < LoopCap
    /\ loop' = [loop EXCEPT !.y = @ + Step(tile_size_m, overlap_m),
                            !.row = @ + 1]
    /\ gpc' = "while_y"
    /\ UNCHANGED <<state_bounds, tile_size_m, overlap_m, tiles>>
    /\ UNCHANGED rvars
    /\ UNCHANGED beside_tvars

\* the outer loop is left: return tiles
ReturnTiles ==
    /\ gpc = "while_y"
    /\ ~(loop.y < state_bounds[4])
    /\ gpc' = "returned"
    /\ UNCHANGED <<state_bounds, tile_size_m, overlap_m, tiles, loop>>
    /\ UNCHANGED rvars
    /\ UNCHANGED beside_tvars

NextTileLoop == EnterLoop \/ EnterRow \/ AppendTile \/ NextRow \/ ReturnTiles

\* the interpreter goes on with the next statement as long as there is one
SpecTileLoop ==
    InitTileLoop /\ [][NextTileLoop]_vars /\ WF_vars(NextTileLoop)

(***************************************************************************)
(* A run of create_csb (up to the combined raster) or of create_csb_tiled  *)
(***************************************************************************)
InitRun ==
    /\ EncoderIdle /\ EliminateIdle /\ VectorIdle
    /\ pipeline \in {"create_csb", "create_csb_tiled"}
    /\ IF pipeline = "create_csb_tiled"
       THEN /\ \E i \in RunTilings(MaxRunTiles) :
                 /\ state_bounds = i.state_bounds
                 /\ tile_size_m = i.tile_size_m
                 /\ overlap_m = i.overlap_m
            /\ max_tiles \in {<< >>} \cup {<<n>> : n \in 1..MaxRunTiles}
       ELSE /\ state_bounds = <<0, 0, 0, 0>>
            /\ tile_size_m = 0 /\ overlap_m = 0
            /\ max_tiles = << >>
    /\ tiles = << >> /\ gpc = "idle" /\ loop = LoopIdle
    /\ start_year = 1 /\ end_year = MaxRunYears
    /\ on_disk \in SUBSET (1..MaxRunYears)
    /\ cdl_paths = {} /\ tile_outputs = << >> /\ encoded = {}
    /\ merged = << >> /\ rpc = "called" /\ error = ""
    /\ progress \in BOOLEAN /\ stdout = << >>

\* create_csb: cdl_paths = get_cdl_paths_for_years(...);
\* if not cdl_paths: raise FileNotFoundError
FindRasters ==
    /\ pipeline = "create_csb" /\ rpc = "called"
    /\ cdl_paths' = get_cdl_paths_for_years(on_disk, start_year, end_year)
    /\ IF cdl_paths' = {}
       THEN rpc' = "raised" /\ error' = "FileNotFoundError: No CDL rasters found"
       ELSE rpc' = "combine" /\ error' = error
    /\ UNCHANGED <<state_bounds, tile_size_m, overlap_m, tiles, gpc, loop,
                   pipeline,
                   max_tiles, start_year, end_year, on_disk, tile_outputs,
                   encoded, merged, progress, stdout>>
    /\ UNCHANGED beside_tvars

\* create_csb: combine_cdl_rasters_windowed(cdl_paths, ...), which stacks
\* years = sorted(cdl_paths.keys())
CombineRasters ==
    /\ pipeline = "create_csb" /\ rpc = "combine"
    /\ encoded' = encoded \cup {cdl_paths}
    /\ rpc' = "combined"
    /\ UNCHANGED <<state_bounds, tile_size_m, overlap_m, tiles, gpc, loop,
                   pipeline,
                   max_tiles, start_year, end_year, on_disk, cdl_paths,
                   tile_outputs, merged, error, progress, stdout>>
    /\ UNCHANGED beside_tvars

\* create_csb_tiled: tiles = generate_state_tiles(...)[:max_tiles];
\* cdl_paths = get_cdl_paths_for_years(...)
StartTiled ==
    /\ pipeline = "create_csb_tiled" /\ rpc = "called"
    /\ tiles' = Slice(generate_state_tiles(state_bounds, tile_size_m,
                                           overlap_m), max_tiles)
    /\ cdl_paths' = get_cdl_paths_for_years(on_disk, start_year, end_year)
    /\ rpc' = "tiles"
    /\ stdout' = IF progress
                 THEN Append(stdout, Line("Processing tiles", <<Len(tiles')>>))
                 ELSE stdout
    /\ UNCHANGED <<state_bounds, tile_size_m, overlap_m, gpc, loop,
                   pipeline,
                   max_tiles, start_year, end_year, on_disk, tile_outputs,
                   encoded, merged, error, progress>>
    /\ UNCHANGED beside_tvars

\* create_csb_tiled: the body of "for tile in iterator": process_tile
\* returns a path or None, or raises, and then None is appended; with no
\* raster at all min(cdl_paths.keys()) raises
ProcessTile ==
    /\ pipeline = "create_csb_tiled" /\ rpc = "tiles"
    /\ Len(tile_outputs) < Len(tiles)
    /\ \E outcome \in TileOutcomes :
         /\ cdl_paths = {} => outcome = "open_failure"
         /\ IF outcome = "success"
            THEN \E rows \in TileRows(MaxTileRows, Cardinality(cdl_paths)) :
                     tile_outputs' = Append(tile_outputs, Saved(rows))
            ELSE tile_outputs' = Append(tile_outputs, NoOutput)
         /\ encoded' = IF outcome \in Encoding
                       THEN encoded \cup {cdl_paths} ELSE encoded
         /\ stdout' = IF progress /\ outcome \in Raising
                      THEN Append(stdout, Line("Tile failed",
                                               <<Len(tile_outputs)>>))
                      ELSE stdout
    /\ UNCHANGED <<state_bounds, tile_size_m, overlap_m, tiles, gpc, loop,
                   pipeline,
                   max_tiles, start_year, end_year, on_disk, cdl_paths,
                   merged, rpc, error, progress>>
    /\ UNCHANGED beside_tvars

\* create_csb_tiled after the loop: valid_outputs; if not valid_outputs:
\* raise ValueError; merged = merge_tile_outputs(valid_outputs, ...)
MergeTiles ==
    /\ pipeline = "create_csb_tiled" /\ rpc = "tiles"
    /\ Len(tile_outputs) = Len(tiles)
    /\ stdout' = IF progress
                 THEN Append(stdout, Line("Successful tiles",
                                          <<successful(tile_outputs),
                                            Len(tiles)>>))
                 ELSE stdout
    /\ LET valid_outputs == SelectSeq(tile_outputs, LAMBDA o : o # NoOutput)
       IN  IF valid_outputs = << >>
           THEN /\ rpc' = "raised"
                /\ error' = "ValueError: No tiles produced output"
                /\ merged' = merged
           ELSE /\ rpc' = "done"
                /\ error' = error
                /\ merged' = merge_tile_outputs(valid_outputs).gdf
    /\ UNCHANGED <<state_bounds, tile_size_m, overlap_m, tiles, gpc, loop,
                   pipeline,
                   max_tiles, start_year, end_year, on_disk, cdl_paths,
                   tile_outputs, encoded, progress>>
    /\ UNCHANGED beside_tvars

NextRun ==
    FindRasters \/ CombineRasters \/ StartTiled \/ ProcessTile \/ MergeTiles

SpecRun == InitRun /\ [][NextRun]_vars

(***************************************************************************)
(* Claims about the encoder run by several workers, under SpecConcurrent   *)
(***************************************************************************)
\* the codes handed out so far
CodesInUse == {value_to_code[v] : v \in DOMAIN value_to_code}

\* one code per tuple: no two values share a code, no two codes denote the
\* same tuple, the codes are 0..next_code-1 with none left out, the lookup
\* decodes every value's code to its tuple, and every pixel written holds
\* the code of its value
OneCodePerTuple ==
    /\ \A u, v \in DOMAIN value_to_code :
           value_to_code[u] = value_to_code[v] => u = v
    /\ \A c, d \in DOMAIN global_lookup :
           global_lookup[c] = global_lookup[d] => c = d
    /\ DOMAIN global_lookup = 0..(next_code - 1)
    /\ CodesInUse = DOMAIN global_lookup
    /\ \A v \in DOMAIN value_to_code :
           global_lookup[value_to_code[v]] = decode_sequence(v, n_years)
    /\ \A p \in DOMAIN dst : dst[p] = value_to_code[Combine(stack[p])]

\* C23: when windows are processed concurrently and the test-then-insert on
\* value_to_code, next_code and global_lookup is one atomic step, one code
\* per tuple holds under every interleaving of the windows; without that a
\* tuple can get two codes, a code two tuples, or a code can be skipped.
C23_AtomicKeepsOneCodePerTuple == atomic => OneCodePerTuple

\* two workers at work on two windows at once under the lock, each of which
\* has put a value into the table
C23_Interleaved ==
    /\ atomic
    /\ \A w \in Workers : workers[w].pc \in {"test", "mask", "write"}
    /\ \E u, v \in Workers :
          /\ u # v
          /\ workers[u].coded # Empty /\ workers[v].coded # Empty
          /\ \E c \in CodesInUse : c \notin {workers[u].coded[x] :
                                              x \in DOMAIN workers[u].coded}
          /\ \E c \in CodesInUse : c \notin {workers[v].coded[x] :
                                              x \in DOMAIN workers[v].coded}

\* without the lock: a finished run in which one tuple holds two codes
C23_TupleWithTwoCodes ==
    /\ ~atomic /\ run = "done"
    /\ \E c, d \in DOMAIN global_lookup :
          c # d /\ global_lookup[c] = global_lookup[d]

\* without the lock: a finished run in which one code stands for two tuples
C23_CodeWithTwoTuples ==
    /\ ~atomic /\ run = "done"
    /\ \E p, q \in DOMAIN dst : dst[p] = dst[q] /\ stack[p] # stack[q]

\* without the lock: a finished run in which a code was skipped
C23_CodeSkipped ==
    /\ ~atomic /\ run = "done"
    /\ \E c \in 0..(next_code - 1) : c \notin DOMAIN global_lookup

(***************************************************************************)
(* Claims about tile generation                                            *)
(***************************************************************************)
\* the rows and the columns of the grid: the positions whose origin lies
\* inside the extent
GridRows ==
    {r \in 0..Max(0, state_bounds[4] - state_bounds[2]) :
        state_bounds[2] + r * (tile_size_m - overlap_m) < state_bounds[4]}
GridCols ==
    {c \in 0..Max(0, state_bounds[3] - state_bounds[1]) :
        state_bounds[1] + c * (tile_size_m - overlap_m) < state_bounds[3]}

\* C14: generate_state_tiles with step = tile_size - overlap returns the
\* tiles in row-major order with idx = 0, 1, 2, ...; tile (row, col) has the
\* bounds (minx + col*step, miny + row*step, min(minx + col*step + tile_size,
\* maxx), min(miny + row*step + tile_size, maxy)); for the extent
\* (0,0,200,200), tile_size 100 and overlap 10 it returns exactly the nine
\* tiles of the example, in order.
C14_TileGrid ==
    gpc = "returned" =>
        LET step == tile_size_m - overlap_m
            minx == state_bounds[1]
            miny == state_bounds[2]
            maxx == state_bounds[3]
            maxy == state_bounds[4]
        IN  /\ \A k \in 1..Len(tiles) :
                 /\ tiles[k].idx = k - 1
                 /\ tiles[k].bounds =
                      <<minx + tiles[k].col * step,
                        miny + tiles[k].row * step,
                        Min(minx + tiles[k].col * step + tile_size_m, maxx),
                        Min(miny + tiles[k].row * step + tile_size_m, maxy)>>
            /\ \A j, k \in 1..Len(tiles) :
                 j < k => \/ tiles[j].row < tiles[k].row
                          \/ /\ tiles[j].row = tiles[k].row
                             /\ tiles[j].col < tiles[k].col
            /\ {<<tiles[k].row, tiles[k].col>> : k \in 1..Len(tiles)} =
                 IF maxx > minx THEN GridRows \X GridCols ELSE {}
            /\ (/\ state_bounds = ExampleTiling.state_bounds
                /\ tile_size_m = ExampleTiling.tile_size_m
                /\ overlap_m = ExampleTiling.overlap_m) =>
                 [k \in 1..Len(tiles) |-> tiles[k].bounds] =
                   << <<0, 0, 100, 100>>, <<90, 0, 190, 100>>,
                      <<180, 0, 200, 100>>, <<0, 90, 100, 190>>,
                      <<90, 90, 190, 190>>, <<180, 90, 200, 190>>,
                      <<0, 180, 100, 200>>, <<90, 180, 190, 200>>,
                      <<180, 180, 200, 200>> >>

\* the example of the specification has been tiled into nine tiles
C14_Witness ==
    /\ gpc = "returned"
    /\ state_bounds = ExampleTiling.state_bounds
    /\ tile_size_m = ExampleTiling.tile_size_m
    /\ overlap_m = ExampleTiling.overlap_m
    /\ Len(tiles) = 9
    /\ \E k \in 1..Len(tiles) : tiles[k].bounds[3] < tiles[k].bounds[1] + tile_size_m

\* the unit cell with the lower left corner (cx, cy) lies in the tile
CoversCell(tile, cx, cy) ==
    /\ tile.bounds[1] <= cx /\ cx + 1 <= tile.bounds[3]
    /\ tile.bounds[2] <= cy /\ cy + 1 <= tile.bounds[4]

\* the point (px, py) lies in the tile, its border included
CoversPoint(tile, px, py) ==
    /\ tile.bounds[1] <= px /\ px <= tile.bounds[3]
    /\ tile.bounds[2] <= py /\ py <= tile.bounds[4]

\* the width of what two tiles share along x and along y
SharedX(s, t) == Min(s.bounds[3], t.bounds[3]) - Max(s.bounds[1], t.bounds[1])
SharedY(s, t) == Min(s.bounds[4], t.bounds[4]) - Max(s.bounds[2], t.bounds[2])

\* the tile is not clipped at the edge of the extent
Unclipped(tile) ==
    /\ tile.bounds[3] = tile.bounds[1] + tile_size_m
    /\ tile.bounds[4] = tile.bounds[2] + tile_size_m

\* C30: for every extent and 0 <= overlap < tile_size the tiles that
\* generate_state_tiles returns cover the extent with no gap, every tile lies
\* inside the extent with positive width and height, and two tiles next to
\* each other in a row or a column that are not clipped overlap by exactly
\* overlap.
C30_TileCoverage ==
    gpc = "returned" =>
        LET minx == state_bounds[1]
            miny == state_bounds[2]
            maxx == state_bounds[3]
            maxy == state_bounds[4]
        IN  /\ \A cx \in minx..(maxx - 1) : \A cy \in miny..(maxy - 1) :
                 /\ \E k \in 1..Len(tiles) : CoversCell(tiles[k], cx, cy)
                 /\ \A px \in {cx, cx + 1} : \A py \in {cy, cy + 1} :
                        \E k \in 1..Len(tiles) : CoversPoint(tiles[k], px, py)
            /\ \A k \in 1..Len(tiles) :
                 /\ minx <= tiles[k].bounds[1] /\ tiles[k].bounds[3] <= maxx
                 /\ miny <= tiles[k].bounds[2] /\ tiles[k].bounds[4] <= maxy
                 /\ tiles[k].bounds[1] < tiles[k].bounds[3]
                 /\ tiles[k].bounds[2] < tiles[k].bounds[4]
            /\ \A j, k \in 1..Len(tiles) :
                 (Unclipped(tiles[j]) /\ Unclipped(tiles[k])) =>
                    /\ (tiles[j].row = tiles[k].row
                           /\ tiles[k].col = tiles[j].col + 1)
                          => SharedX(tiles[j], tiles[k]) = overlap_m
                    /\ (tiles[j].col = tiles[k].col
                           /\ tiles[k].row = tiles[j].row + 1)
                          => SharedY(tiles[j], tiles[k]) = overlap_m

\* a tiling with a positive overlap, two unclipped tiles side by side, two
\* one above the other, and a tile clipped at the edge
C30_Witness ==
    /\ gpc = "returned" /\ overlap_m > 0
    /\ \E j, k \in 1..Len(tiles) :
          /\ Unclipped(tiles[j]) /\ Unclipped(tiles[k])
          /\ tiles[j].row = tiles[k].row /\ tiles[k].col = tiles[j].col + 1
    /\ \E j, k \in 1..Len(tiles) :
          /\ Unclipped(tiles[j]) /\ Unclipped(tiles[k])
          /\ tiles[j].col = tiles[k].col /\ tiles[k].row = tiles[j].row + 1
    /\ \E k \in 1..Len(tiles) : ~Unclipped(tiles[k])

\* the extent of the call has an interior: minx < maxx and miny < maxy
ProperExtent ==
    state_bounds[1] < state_bounds[3] /\ state_bounds[2] < state_bounds[4]

\* C29: for an extent with minx < maxx and miny < maxy generate_state_tiles
\* terminates if and only if tile_size - overlap > 0: with step > 0 it
\* returns, and returns exactly ceil((maxx-minx)/step) * ceil((maxy-miny)/step)
\* tiles (those of the function taken as a whole); with overlap >= tile_size
\* the condition of the inner loop stays true and the call never returns.
C29_TerminatesIffStepPositive ==
    LET step == tile_size_m - overlap_m
        w == state_bounds[3] - state_bounds[1]
        h == state_bounds[4] - state_bounds[2]
    IN  /\ (ProperExtent /\ step > 0) ~> (gpc = "returned")
        /\ [](ProperExtent /\ step > 0 /\ gpc = "returned" =>
                 /\ Len(tiles) = CeilDiv(w, step) * CeilDiv(h, step)
                 /\ tiles = generate_state_tiles(state_bounds, tile_size_m,
                                                 overlap_m))
        /\ [](ProperExtent /\ step > 0 =>
                 /\ Len(tiles) < LoopCap /\ loop.row < LoopCap)
        /\ [](ProperExtent /\ step <= 0 =>
                 /\ gpc # "returned"
                 /\ gpc = "while_x" => loop.x < state_bounds[3])

\* a call with overlap >= tile_size that has piled up tiles without leaving
\* the first row
C29_LoopGoesOn ==
    /\ ProperExtent /\ overlap_m >= tile_size_m
    /\ gpc = "while_x" /\ loop.row = 0
    /\ Len(tiles) = LoopCap

\* a call with step > 0 that has returned several rows and columns of tiles
C29_Returned ==
    /\ ProperExtent /\ overlap_m < tile_size_m
    /\ gpc = "returned"
    /\ \E k \in 1..Len(tiles) : tiles[k].row > 0 /\ tiles[k].col > 0

(***************************************************************************)
(* Claims about a run                                                      *)
(***************************************************************************)
\* the tiles of the run that were skipped, by position
Skipped == {k \in 1..Len(tile_outputs) : tile_outputs[k] = NoOutput}

\* C15: in create_csb_tiled the failure of a tile (read failure, empty
\* stack, an exception anywhere in its pipeline) never aborts the run: the
\* run completes with the merge of the surviving tiles, also when every
\* tile is skipped.
C15_RunNeverAborts == pipeline = "create_csb_tiled" => rpc # "raised"

\* a run with rasters on disk whose tiles were all skipped, and that raised
C15_EveryTileSkipped ==
    /\ pipeline = "create_csb_tiled" /\ rpc = "raised"
    /\ cdl_paths # {}
    /\ Len(tiles) >= 1 /\ Skipped = 1..Len(tiles)

\* what the loop does guarantee: every tile is processed, in order, whatever
\* happened to the tiles before it, and the run ends with the merge of the
\* surviving tiles exactly when there is one
C15_TilesIsolated ==
    (pipeline = "create_csb_tiled" /\ rpc \in {"done", "raised"}) =>
        /\ Len(tile_outputs) = Len(tiles)
        /\ rpc = "raised" <=> Skipped = 1..Len(tiles)
        /\ rpc = "done" => merged = merge_tile_outputs(tile_outputs).gdf

\* the records of the surviving tile outputs, as (tile, row) positions
InputRecords ==
    {<<k, j>> \in (1..Len(tile_outputs)) \X (1..MaxTileRows + 1) :
        tile_outputs[k].saved /\ j <= Len(tile_outputs[k].rows)}
InputRecord(p) == tile_outputs[p[1]].rows[p[2]]

Missing == {year \in start_year..end_year : year \notin on_disk}

\* C17: when the raster of any year of start_year..end_year cannot be found,
\* create_csb and create_csb_tiled abort before anything is encoded; they
\* never go on with a stack that leaves the year out.
C17_MissingYearFatal ==
    (rpc # "idle" /\ Missing # {}) =>
        /\ encoded = {}
        /\ rpc \notin {"combined", "done"}

\* create_csb has combined a stack that lacks a year of the range
C17_StackOmitsYear ==
    /\ pipeline = "create_csb" /\ rpc = "combined"
    /\ Missing # {}
    /\ \E years \in encoded : years # {} /\ years # start_year..end_year

\* the same in a tile of create_csb_tiled, in a run that went on to merge
C17_TileStackOmitsYear ==
    /\ pipeline = "create_csb_tiled" /\ rpc = "done"
    /\ Missing # {}
    /\ \E years \in encoded : years # {} /\ years # start_year..end_year

\* C21: every record of the output of merge_tile_outputs is a polygon in
\* one part: two disjoint regions with the same code are two records, never
\* one record with a geometry in several parts.
C21_SinglePartRecords ==
    rpc = "done" => \A n \in 1..Len(merged) : ~IsMultiPolygon(merged[n].geometry)

\* a merged record in several parts, made of single-part polygons of two
\* tiles that carry the same gridcode and do not touch
C21_MultiPartRecord ==
    /\ rpc = "done"
    /\ \A p \in InputRecords : ~IsMultiPolygon(InputRecord(p).geometry)
    /\ \E n \in 1..Len(merged) : IsMultiPolygon(merged[n].geometry)

\* the elimination engine before the merge keeps its part of the claim: of
\* single-part rows it makes single-part rows
C21_EliminationSinglePart == SinglePart(input) => SinglePart(gdf)

\* C24: in the merged mosaic of one tiled run a gridcode stands for one
\* per-year tuple: every record of merge_tile_outputs has the per-year
\* values and the counts of every tile polygon that was dissolved into it.
C24_OneTuplePerCode ==
    rpc = "done" =>
        \A n \in 1..Len(merged) : \A p \in InputRecords :
            InputRecord(p).gridcode = merged[n].gridcode =>
                /\ merged[n].cdl = InputRecord(p).cdl
                /\ merged[n].count0 = InputRecord(p).count0
                /\ merged[n].count45 = InputRecord(p).count45

\* two tiles whose lookups give the same code to different tuples, and a
\* merged record that unites their polygons under the tuple of the first
C24_CodesClash ==
    /\ rpc = "done"
    /\ \E p, q \in InputRecords : \E n \in 1..Len(merged) :
          /\ p[1] < q[1]
          /\ InputRecord(p).gridcode = InputRecord(q).gridcode
          /\ InputRecord(p).cdl # InputRecord(q).cdl
          /\ merged[n].gridcode = InputRecord(p).gridcode
          /\ merged[n].cdl = InputRecord(p).cdl
          /\ InputRecord(q).geometry \subseteq merged[n].geometry

\* the run of create_csb_tiled is past its loop over the tiles
LoopDone == pipeline = "create_csb_tiled" /\ rpc \in {"done", "raised"}

\* C26: every tile skipped by create_csb_tiled is accounted for: each tile
\* has exactly one outcome, the merge receives exactly the outputs of the
\* tiles that were not skipped, and the run reports the number of skipped
\* tiles (tiles - successful) whether or not progress printing is enabled.
C26_SkippedReported ==
    LoopDone =>
        /\ Len(tile_outputs) = Len(tiles)
        /\ rpc = "done" =>
              merged = merge_tile_outputs(
                           SelectSeq(tile_outputs, LAMBDA o : o.saved)).gdf
        /\ \E n \in 1..Len(stdout) :
              /\ stdout[n].text = "Successful tiles"
              /\ stdout[n].numbers[2] - stdout[n].numbers[1]
                     = Cardinality(Skipped)

\* the part of C26 that the code keeps: one outcome per tile, the merge of
\* exactly the surviving outputs, and the count on the standard output when
\* progress is on
C26_AccountedWithProgress ==
    LoopDone =>
        /\ Len(tile_outputs) = Len(tiles)
        /\ rpc = "done" =>
              merged = merge_tile_outputs(
                           SelectSeq(tile_outputs, LAMBDA o : o.saved)).gdf
        /\ progress =>
              \E n \in 1..Len(stdout) :
                  /\ stdout[n].text = "Successful tiles"
                  /\ stdout[n].numbers[2] - stdout[n].numbers[1]
                         = Cardinality(Skipped)

\* a run without progress printing that skipped a tile, merged the rest and
\* said nothing
C26_SilentSkip ==
    /\ LoopDone /\ rpc = "done" /\ ~progress
    /\ Skipped # {}
    /\ stdout = << >>

(***************************************************************************)
(* Claims about the vector stage                                           *)
(***************************************************************************)
\* count0 - count45 of a record
Net(r) == r.count0 - r.count45

\* the retention rule in the words of the specification
Retained(r) ==
    \/ Net(r) >= min_crop_years
    \/ Area(r.geometry) >= min_area_single_year /\ Net(r) >= 1

\* the positions of the enriched rows the rule retains, and the j-th of them
KeptPositions == {k \in 1..Len(enriched) : Retained(enriched[k])}
KeptAt(j) ==
    CHOOSE k \in KeptPositions :
        Cardinality({m \in KeptPositions : m < k}) = j - 1

\* C11: filter_by_crop_presence keeps a record exactly when its net crop
\* years reach min_crop_years, or its area reaches min_area_single_year and
\* it has at least one net crop year; the kept records are the input's own,
\* unmodified, in their original relative order, and none is added.
C11_FilterRule ==
    vpc = "filtered" =>
        /\ Len(filtered) = Cardinality(KeptPositions)
        /\ \A j \in 1..Len(filtered) : filtered[j] = enriched[KeptAt(j)]

\* a run that kept one record by the area clause alone and dropped another
C11_Witness ==
    /\ vpc = "filtered"
    /\ Len(filtered) >= 1 /\ Len(filtered) < Len(enriched)
    /\ \E k \in KeptPositions :
          /\ Net(enriched[k]) < min_crop_years
          /\ Area(enriched[k].geometry) >= min_area_single_year

\* C12 as stated: whatever min_crop_years and min_area_single_year are, no
\* record with count0 - count45 <= 0 survives the filter.
C12_AsStated ==
    vpc = "filtered" => \A j \in 1..Len(filtered) : Net(filtered[j]) > 0

\* C12: for every min_crop_years >= 1 and every min_area_single_year,
\* filter_by_crop_presence drops every record whose count0 - count45 is
\* <= 0, whatever its area.
C12_NoCropDropped ==
    (vpc = "filtered" /\ min_crop_years >= 1) =>
        \A j \in 1..Len(filtered) : Net(filtered[j]) > 0

\* a record without net crop years, large enough for the area clause, that
\* a filter with min_crop_years >= 1 dropped
C12_Witness ==
    /\ vpc = "filtered" /\ min_crop_years >= 1
    /\ \E k \in 1..Len(enriched) :
          /\ Net(enriched[k]) <= 0
          /\ Area(enriched[k].geometry) >= min_area_single_year
          /\ \A j \in 1..Len(filtered) : filtered[j].index # enriched[k].index

\* C13: enrich_from_lookup never raises because of a missing code, for every
\* lookup table, a table with no entries included.
C13_NeverRaises == vpc # "raised"

\* the call that raised: the table has no entry to take the years from
C13_RaisedOnEmptyTable == vpc = "raised" /\ lookup_json = << >>

\* with a table that has entries, a gridcode missing from it gets a null in
\* every per-year column and 0 in count0 and count45, a gridcode present in
\* it gets the values of its entry
C13_DefaultsForMissingCode ==
    vpc = "enriched" =>
        \A k \in 1..Len(enriched) :
            LET x == vec_gdf[k].gridcode
                present == {j \in 1..Len(lookup_json) :
                                lookup_json[j].key = StrOf(x)}
            IN  /\ Len(enriched[k].cdl) = Len(lookup_json[1].entry.years)
                /\ present = {} =>
                     /\ \A i \in 1..Len(enriched[k].cdl) :
                            enriched[k].cdl[i] = None
                     /\ enriched[k].count0 = 0 /\ enriched[k].count45 = 0
                /\ \A j \in present :
                     /\ enriched[k].cdl = lookup_json[j].entry.values
                     /\ enriched[k].count0 = lookup_json[j].entry.count0
                     /\ enriched[k].count45 = lookup_json[j].entry.count45

(***************************************************************************)
(* Claims about the elimination engine, under SpecEliminate                *)
(***************************************************************************)
Rows == 1..Len(gdf)
Geom(k) == gdf[k].geometry
Shared(p, q) == SharedLength(Geom(p), Geom(q))

\* the polygons at or below the threshold of the running tier
SmallOnes == {k \in Rows : Area(Geom(k)) <= Threshold}

\* the neighbours a small polygon p may be merged into: another polygon,
\* above the threshold, in contact with p along a boundary of positive length
Qualifying(p) ==
    {q \in Rows \ {p} : /\ Area(Geom(q)) > Threshold
                        /\ Intersects(Geom(p), Geom(q))
                        /\ Shared(p, q) > 0}

\* candidate a is enumerated no later than candidate b
NoLater(a, b) == IF order = "asc" THEN a <= b ELSE a >= b

\* C5: in every iteration the target recorded for a small polygon p is a
\* qualifying neighbour whose shared boundary with p is longest, the first
\* enumerated among those that tie; p has no target iff none qualifies;
\* only small polygons are sources.
C5_LongestSharedBoundary ==
    pc = "merge" =>
        /\ DOMAIN merge_map \subseteq SmallOnes
        /\ \A p \in SmallOnes :
             IF Qualifying(p) = {}
             THEN p \notin DOMAIN merge_map
             ELSE /\ p \in DOMAIN merge_map
                  /\ merge_map[p] \in Qualifying(p)
                  /\ \A r \in Qualifying(p) :
                       /\ Shared(p, merge_map[p]) >= Shared(p, r)
                       /\ Shared(p, merge_map[p]) = Shared(p, r)
                            => NoLater(merge_map[p], r)

\* a tie between two qualifying neighbours, beside a small neighbour that
\* shares a side with p and is passed over
C5_Witness ==
    /\ pc = "merge"
    /\ \E p \in DOMAIN merge_map :
         /\ \E r \in Qualifying(p) \ {merge_map[p]} :
                Shared(p, r) = Shared(p, merge_map[p])
         /\ \E x \in SmallOnes \ {p} : Shared(p, x) > 0

RECURSIVE SumAreas(_, _)
SumAreas(g, k) == IF k > Len(g) THEN 0 ELSE Area(g[k].geometry) + SumAreas(g, k + 1)

\* the total area of a polygon set
TotalArea(g) == SumAreas(g, 1)

\* C6: area conservation.  The polygon set has the total area of the input
\* after every merge iteration, that is, no call of apply_merges /
\* apply_merges_fast with the merge map of an iteration changes the total,
\* the calls in which a union is multi-part and only its largest part is
\* kept included.
C6_AreaConserved == TotalArea(gdf) = TotalArea(input)

\* a merge iteration in which the union of a target with its sources is
\* multi-part
C6_MultiPartUnion ==
    /\ pc = "merge"
    /\ \E t \in {merge_map[x] : x \in DOMAIN merge_map} :
          IsMultiPolygon(Geom(t) \cup
              UNION {Geom(x) : x \in {y \in DOMAIN merge_map : merge_map[y] = t}})

\* what the engine keeps: it never adds area, and it keeps the total when
\* every row of the input is in one part, no union being multi-part then
C6_SinglePartConserved ==
    /\ TotalArea(gdf) <= TotalArea(input)
    /\ SinglePart(input) => (TotalArea(gdf) = TotalArea(input) /\ ~C6_MultiPartUnion)

\* one iteration has merged two or more sources
C6_Witness ==
    /\ pc \in {"loop", "returned"}
    /\ iteration = 1
    /\ Len(tier_input) - Len(gdf) >= 2

\* C7: the number of polygons never increases in a step of a tiered run.
C7_CountNeverIncreases == [][Len(gdf') <= Len(gdf)]_vars

\* the count fell in the first tier and again in the second
C7_Witness ==
    /\ tier = 2
    /\ Len(gdf) < Len(tier_input)
    /\ Len(tier_input) < Len(input)

\* the lines printed since the running tier was called
TierLines ==
    LET calls == {k \in 1..Len(printed) : printed[k] = "tier"}
        start == CHOOSE k \in calls : \A j \in calls : j <= k
    IN  {printed[k] : k \in start..Len(printed)}

\* the only line of the engine that tells of small polygons left behind is
\* "No more polygons can be merged"; there is no warning and no counter
Signalled == "no_more_merges" \in TierLines

\* C18: a tier that ends with polygons at or below its threshold, having
\* run max_iterations iterations or not, has told so by a warning or a
\* counter (here: by any line that tells of small polygons left behind).
C18_NonConvergenceSignalled ==
    (pc = "returned" /\ SmallOnes # {}) => Signalled

\* a tier out of iterations with small polygons left that have a neighbour
\* to merge into
C18_Exhausted ==
    /\ pc = "returned" /\ exit = "exhausted"
    /\ \E k \in SmallOnes : Qualifying(k) # {}

\* the sources and the targets of the merge map
Sources == DOMAIN merge_map
Targets == {merge_map[x] : x \in DOMAIN merge_map}

\* the gridcodes of the rows of g, which tell the rows of an input apart
Codes(g) == {g[k].gridcode : k \in 1..Len(g)}

\* C19: a merge iteration takes exactly the sources of its merge map out of
\* the polygon set: the count falls by the number of pairs, every source is
\* gone, every target and every other polygon is still there, and no
\* polygon is a source and a target of the same map, so that no target is
\* skipped as already dropped.
C19_CountFallsByPairs ==
    [][(pc = "merge" /\ merge_map # Empty) =>
          /\ Sources \cap Targets = {}
          /\ MergeIntoTargets(TargetsInOrder(merge_map), 1, gdf, {}, merge_map)
                 .indices_to_drop = Sources
          /\ Len(gdf') = Len(gdf) - Cardinality(Sources)
          /\ Codes(gdf') = {gdf[k].gridcode : k \in Rows \ Sources}
          /\ Cardinality(Codes(gdf')) = Len(gdf')]_vars

\* an iteration just applied a map of three pairs or two pairs with two
\* targets
C19_Witness ==
    /\ pc = "loop" /\ iteration = 1
    /\ Cardinality(Sources) >= 2
    /\ Cardinality(Targets) >= 2
    /\ Len(gdf) = Len(tier_input) - Cardinality(Sources)

AllAboveThreshold == \A k \in Rows : Area(Geom(k)) > Threshold

\* C8 as stated: a tier that returns without a non-convergence warning
\* leaves only polygons above its threshold.  The code emits no warning at
\* all; the statement is the weaker one that grants the warning to every
\* tier that ran out of iterations.
C8_AsStated ==
    (pc = "returned" /\ exit # "exhausted") => AllAboveThreshold

\* C8 amended: a tier that ended because no small polygon was left returns
\* only polygons above its threshold; a tier that ended because no merge
\* pair was found returns polygons at or below the threshold, each of them
\* without a qualifying neighbour; any other tier has run max_iterations
\* iterations.
C8_PostTier ==
    pc = "returned" =>
        /\ exit \in {"no_small", "no_merge", "exhausted"}
        /\ exit = "no_small" => AllAboveThreshold
        /\ exit = "no_merge" =>
             /\ SmallOnes # {}
             /\ \A k \in SmallOnes : Qualifying(k) = {}
        /\ exit = "exhausted" => iteration = max_iterations

\* after a merge, a small polygon in corner contact only stays behind
C8_Witness ==
    /\ pc = "returned" /\ exit = "no_merge"
    /\ iteration >= 1
    /\ \E k \in SmallOnes : \E q \in Rows \ SmallOnes :
           Intersects(Geom(k), Geom(q)) /\ Shared(k, q) = 0

\* C9: idempotence.  A tier called on a set with no polygon at or below
\* its threshold returns that set, row for row, without an iteration.
C9_Idempotent ==
    (pc = "returned"
       /\ \A k \in 1..Len(tier_input) : Area(tier_input[k].geometry) > Threshold)
    => (gdf = tier_input /\ iteration = 0)

\* the second of two tiers with the same threshold, after the first merged
C9_Witness ==
    /\ pc = "returned" /\ tier = 2
    /\ thresholds[1] = thresholds[2] /\ thresholds[1] > 0
    /\ Len(tier_input) < Len(input)
    /\ \A k \in 1..Len(tier_input) : Area(tier_input[k].geometry) > Threshold

\* the merge map as a function of the polygon set, the threshold and the
\* index order alone: the sequential search over all small polygons
Decide(g, T) ==
    IF impl = "slow" THEN build_merge_map(g, T, order)
    ELSE find_neighbor_batch(small_indices(g, T), g, T, order)

RECURSIVE RunTier(_, _, _)
\* the polygon set a tier returns, as a function of its input
RunTier(g, T, it) ==
    IF it = max_iterations \/ SmallSet(g, T) = {} THEN g
    ELSE IF Decide(g, T) = Empty THEN g
    ELSE RunTier(MergeRows(g, Decide(g, T)), T, it + 1)

RECURSIVE RunTiers(_, _)
RunTiers(g, k) ==
    IF k > Len(thresholds) THEN g
    ELSE RunTiers(RunTier(g, thresholds[k], 0), k + 1)

\* C10: determinism.  Whatever the order in which the batches run, every
\* batch result, the merge map of every iteration, the set every tier
\* returns and the final set are functions of the input, the thresholds
\* and the order of the rows.
C10_Deterministic ==
    /\ pc = "search" =>
         \A b \in DOMAIN results : results[b].done =>
             results[b].map =
                 [x \in {y \in DOMAIN Decide(gdf, Threshold) :
                            \E k \in 1..Len(TheBatches[b]) : TheBatches[b][k] = y}
                    |-> Decide(gdf, Threshold)[x]]
    /\ pc = "merge" => merge_map = Decide(gdf, Threshold)
    /\ pc = "returned" => gdf = RunTier(tier_input, Threshold, 0)
    /\ pc = "finished" => gdf = RunTiers(input, 1)

\* two batches that ran, the second one first, each with a pair to merge
C10_Witness ==
    /\ pc = "search" /\ impl = "fast"
    /\ Len(results) >= 2
    /\ results[2].done /\ ~results[1].done
    /\ results[2].map # Empty
    /\ find_neighbor_batch(TheBatches[1], gdf, Threshold, order) # Empty

\* C22: early abort.  An iteration that finds small polygons but no merge
\* pair ends the tier in that iteration, without a call of apply_merges:
\* the tier returns the polygon set as it was at the start of the
\* iteration, the isolated small polygons included, and the next tier, if
\* there is one, starts from that set.
C22_EarlyAbort ==
    /\ [][(pc \in {"loop", "search"}) => gdf' = gdf]_vars
    /\ [][(pc = "merge" /\ merge_map = Empty) =>
             /\ pc' = "returned" /\ exit' = "no_merge"
             /\ SmallOnes # {}
             /\ gdf' = gdf /\ iteration' = iteration]_vars
    /\ [][(pc = "returned" /\ exit = "no_merge" /\ pc' = "loop") =>
             /\ tier' = tier + 1
             /\ tier_input' = gdf /\ gdf' = gdf]_vars

\* a second tier that was handed the set of a first tier which merged and
\* then ended early, with polygons at or below its threshold left
C22_Witness ==
    /\ tier = 2 /\ pc = "loop" /\ iteration = 0
    /\ max_iterations = DefaultMaxIterations
    /\ gdf = tier_input
    /\ Len(tier_input) < Len(input)
    /\ SmallSet(tier_input, thresholds[1]) # {}

\* the iterations of the running tier's loop that have been entered, the
\* one that ended it included
IterationsEntered ==
    IF exit \in {"no_small", "no_merge"} THEN iteration + 1 ELSE iteration

\* C27: progress and termination of a tier.  Every iteration that does not
\* end the tier takes at least one polygon out of the set of small polygons
\* and adds none (a merged target stays above the threshold), so that the
\* set shrinks strictly and a tier ends after at most min(max_iterations,
\* number of initially small polygons + 1) iterations.
C27_TierTerminates ==
    /\ [][(pc = "merge" /\ merge_map # Empty) =>
             /\ Cardinality(SmallSet(gdf', Threshold)) < Cardinality(SmallOnes)
             /\ \A k \in SmallSet(gdf', Threshold) :
                    \E j \in SmallOnes \ Sources : gdf'[k] = gdf[j]
             /\ \A t \in Targets : \E k \in 1..Len(gdf') :
                    /\ gdf'[k].gridcode = gdf[t].gridcode
                    /\ Area(gdf'[k].geometry) > Threshold]_vars
    /\ [](pc = "returned" =>
             /\ IterationsEntered <= max_iterations
             /\ IterationsEntered <=
                  Cardinality(SmallSet(tier_input, Threshold)) + 1)

\* after the first merge iteration of a tier there are as many small
\* polygons as before: a merged target, cut down to the largest part of
\* its union, is at or below the threshold now
C27_TargetFellBelow ==
    /\ pc = "loop" /\ iteration = 1
    /\ Cardinality(SmallOnes) >= Cardinality(SmallSet(tier_input, Threshold))
    /\ \E k \in SmallOnes :
          \E j \in 1..Len(tier_input) :
              /\ tier_input[j].gridcode = gdf[k].gridcode
              /\ Area(tier_input[j].geometry) > Threshold

\* when every row of the input is in one part no union loses a part: every
\* merge iteration shrinks the set of small polygons and adds none to it
C27_SinglePartShrinks ==
    [][(pc = "merge" /\ merge_map # Empty /\ SinglePart(input)) =>
          /\ Cardinality(SmallSet(gdf', Threshold)) < Cardinality(SmallOnes)
          /\ \A k \in SmallSet(gdf', Threshold) :
                 \E j \in SmallOnes \ Sources : gdf'[k] = gdf[j]]_vars

\* the rows that a merge leaves in the set, in their order
Kept == SeqOfSet(Rows \ Sources)

RECURSIVE eliminate_small_polygons(_, _, _)
\* eliminate_small_polygons(gdf, area_threshold, max_iterations) from its
\* iteration it on: the sequential engine as a function
eliminate_small_polygons(g, T, it) ==
    IF it = max_iterations \/ SmallSet(g, T) = {} THEN g
    ELSE IF build_merge_map(g, T, order) = Empty THEN g
    ELSE eliminate_small_polygons(
             apply_merges(g, build_merge_map(g, T, order)), T, it + 1)

\* C25: eliminate_fast gives the result of eliminate_small_polygons: for
\* every polygon set, threshold and max_iterations, every batch_size and
\* every schedule of the workers, it computes the same merge map in every
\* iteration and returns the same polygon set.
C25_FastEqualsSlow ==
    impl = "fast" =>
        /\ pc = "merge" => merge_map = build_merge_map(gdf, Threshold, order)
        /\ pc = "returned" =>
             gdf = eliminate_small_polygons(tier_input, Threshold, 0)

\* a tier of eliminate_fast, run in batches of one, that has returned after
\* two merge iterations in which it merged three polygons
C25_Witness ==
    /\ impl = "fast" /\ batch_size = 1 /\ pc = "returned"
    /\ iteration >= 2
    /\ Len(tier_input) - Len(gdf) >= 3

====
